---- MODULE Spec2Model ----
(***************************************************************************)
(* Tiny Islands rule engine (src/game.py): the turn state machine of       *)
(* GameRunner, the border/island resolver it delegates to, and the choice  *)
(* pool it draws from, and the scoring engine.                             *)
(*                                                                         *)
(* Six specifications: Spec plays a game from create_new_game, ScoreSpec   *)
(* plays the last turns of a stored game and asks for the score, PoolSpec  *)
(* runs the pool generator statement by statement, ChoiceSpec does so for  *)
(* generate_choice, SaveSpec turns the states of a stored game into dicts  *)
(* and back, RegionSpec submits candidate regions on a border turn and     *)
(* turns the lines of the new island back into cells.                      *)
(*                                                                         *)
(* Python objects are modelled with an explicit object store: `heap` maps  *)
(* each reference to the SaveState object it denotes, and copy.deepcopy    *)
(* allocates a new reference.  Positions are                               *)
(* tuples <<x, y>> (x column, y row), lists are sequences, sets are sets.  *)
(***************************************************************************)
EXTENDS Integers, Sequences, FiniteSets, TLC

\* ------------------------------------------------------------------ bounds
\* The caller's baseline play asks for choices once per turn, places the
\* first offered choice on the first free cell, and on a border turn draws
\* a 4x4 square apart from the earlier ones.  MaxDeviations is the number of
\* calls in one game that may depart from it: asking for choices again,
\* placing onto an occupied cell, submitting a region on a placement turn,
\* submitting another region (valid, invalid, empty) or none on a border turn.
MaxDeviations == 1
\* Number of seeds of the random source a game may start from.
MaxSeed == 1
\* Number of placement turns a stored game may have left when it is loaded.
MaxTiles == 3

\* ------------------------------------------------------- program constants
MAX_BORDER_LINES == 24
GRID_SIZE == 9
TOTAL == 52
max_attempts == 100

TURN_ACTIONS ==
  << "choice", "choice", "choice", "choice", "choice", "choice", "choice", "choice", "choice", "border",
     "choice", "choice", "choice", "choice", "choice", "choice", "choice", "choice", "choice", "border",
     "choice", "choice", "choice", "choice", "choice", "choice", "choice", "choice", "border" >>

TILE_TYPES == << "beach", "churches", "forest", "houses", "mountain", "ships", "waves" >>
MIN_COUNTS == << 8, 4, 11, 8, 3, 3, 8 >>
MAX_COUNTS == << 9, 6, 13, 11, 5, 3, 10 >>
ChunkType == << "cluster", "horizontal", "vertical" >>

\* Optional[List]: Python's None, or a list
None == [is_none |-> TRUE, list |-> << >>]
Some(list) == [is_none |-> FALSE, list |-> list]
\* Python's truth value of an Optional[List]: None and [] are false
Truthy(opt) == ~opt.is_none /\ Len(opt.list) > 0

\* ------------------------------------------------------------ data classes
Choice(tile_type, chunk_type, chunk_position) ==
  [tile_type |-> tile_type, chunk_type |-> chunk_type, chunk_position |-> chunk_position]

PlacedTile(choice, tile_position) ==
  [choice |-> choice, tile_position |-> tile_position]

BorderLine(start_pos, end_pos, is_horizontal) ==
  [start_pos |-> start_pos, end_pos |-> end_pos, is_horizontal |-> is_horizontal]

Island(border_lines, enclosed_positions, is_lake) ==
  [border_lines |-> border_lines, enclosed_positions |-> enclosed_positions, is_lake |-> is_lake]

TurnHistory(chosen_tile, discarded_tile, border_lines) ==
  [chosen_tile |-> chosen_tile, discarded_tile |-> discarded_tile, border_lines |-> border_lines]

SaveState(current_turn, choice_history, game_id, created_at, placed_tiles, border_lines, islands) ==
  [current_turn |-> current_turn, choice_history |-> choice_history,
   game_id |-> game_id, created_at |-> created_at,
   placed_tiles |-> placed_tiles, border_lines |-> border_lines, islands |-> islands]

\* --------------------------------------------------------- list utilities
\* Python's `x in list` and set(list)
ToSet(list) == { list[i] : i \in DOMAIN list }

\* the four side offsets, in the order every loop of the resolver uses
SIDES == << <<-1, 0>>, <<1, 0>>, <<0, -1>>, <<0, 1>> >>

\* ------------------------------------------------- border/island resolver
\* BFS of _are_tiles_connected: the set of cells visited from `visited`
RECURSIVE bfs_visited(_, _)
bfs_visited(visited, tile_positions) ==
  LET next == visited \cup
                { n \in ToSet(tile_positions) :
                    \E c \in visited : \E k \in DOMAIN SIDES :
                      n = <<c[1] + SIDES[k][1], c[2] + SIDES[k][2]>> }
  IN IF next = visited THEN visited ELSE bfs_visited(next, tile_positions)

\* mutant of _are_tiles_connected: the search also steps diagonally
RECURSIVE bfs_visited_diagonal(_, _)
bfs_visited_diagonal(visited, tile_positions) ==
  LET next == visited \cup
                { n \in ToSet(tile_positions) :
                    \E c \in visited : \E dx \in -1..1, dy \in -1..1 :
                      n = <<c[1] + dx, c[2] + dy>> }
  IN IF next = visited THEN visited ELSE bfs_visited_diagonal(next, tile_positions)

_are_tiles_connected_diagonal(tile_positions) ==
  IF Len(tile_positions) <= 1 THEN TRUE
  ELSE Cardinality(bfs_visited_diagonal({tile_positions[1]}, tile_positions))
         = Len(tile_positions)

_are_tiles_connected(tile_positions) ==
  IF Len(tile_positions) <= 1 THEN TRUE
  ELSE Cardinality(bfs_visited({tile_positions[1]}, tile_positions)) = Len(tile_positions)

_is_position_surrounded(pos, tile_set) ==
  Cardinality({ k \in DOMAIN SIDES :
                  <<pos[1] + SIDES[k][1], pos[2] + SIDES[k][2]>> \in tile_set }) = 4

SetMin(S) == CHOOSE m \in S : \A n \in S : m <= n
SetMax(S) == CHOOSE m \in S : \A n \in S : m >= n

_is_area_enclosed(tile_positions) ==
  IF Len(tile_positions) <= 1 THEN TRUE
  ELSE LET tile_set == ToSet(tile_positions)
           xs == { p[1] : p \in tile_set }
           ys == { p[2] : p \in tile_set }
       IN \A x \in SetMin(xs)..SetMax(xs) : \A y \in SetMin(ys)..SetMax(ys) :
            <<x, y>> \notin tile_set => ~_is_position_surrounded(<<x, y>>, tile_set)

\* the identifier _calculate_border_length gives the side (dx, dy) of cell
\* (x, y): the sorted pair of tuples built at lines 676-679
border_edge_id(x, y, dx, dy) ==
  IF dx = 0 THEN << <<x, y>>, <<x, y + 1>> >>
  ELSE << <<x, y>>, <<x + 1, y>> >>

\* mutant of _calculate_border_length: the sides of a cell are not told
\* apart by direction
_calculate_border_length_one_id(tile_positions) ==
  IF Len(tile_positions) = 0 THEN 0
  ELSE LET tile_set == ToSet(tile_positions)
       IN Cardinality(
            { border_edge_id(p[1], p[2], 0, 0) :
                <<p, k>> \in { <<q, j>> \in tile_set \X DOMAIN SIDES :
                                 <<q[1] + SIDES[j][1], q[2] + SIDES[j][2]>> \notin tile_set } })

_calculate_border_length(tile_positions) ==
  IF Len(tile_positions) = 0 THEN 0
  ELSE LET tile_set == ToSet(tile_positions)
       IN Cardinality(
            { border_edge_id(p[1], p[2], SIDES[k][1], SIDES[k][2]) :
                <<p, k>> \in { <<q, j>> \in tile_set \X DOMAIN SIDES :
                                 <<q[1] + SIDES[j][1], q[2] + SIDES[j][2]>> \notin tile_set } })

\* mutant of _validate_border_tiles: the test for holes is left out
_validate_border_tiles_no_enclosure(tile_positions) ==
  IF Len(tile_positions) = 0 THEN FALSE
  ELSE IF ~_are_tiles_connected(tile_positions) THEN FALSE
  ELSE IF _calculate_border_length(tile_positions) > MAX_BORDER_LINES THEN FALSE
  ELSE TRUE

_validate_border_tiles(tile_positions) ==
  IF Len(tile_positions) = 0 THEN FALSE
  ELSE IF ~_are_tiles_connected(tile_positions) THEN FALSE
  ELSE IF ~_is_area_enclosed(tile_positions) THEN FALSE
  ELSE IF _calculate_border_length(tile_positions) > MAX_BORDER_LINES THEN FALSE
  ELSE TRUE

_lines_equal(line1, line2) ==
  \/ (line1.start_pos = line2.start_pos /\ line1.end_pos = line2.end_pos)
  \/ (line1.start_pos = line2.end_pos /\ line1.end_pos = line2.start_pos)

\* mutant of side_border_line: the two opposite sides of a cell get the
\* same end points
side_border_line_one_side(x, y, dx, dy) ==
  IF dx = 0
  THEN BorderLine(<<x, y>>, <<x + 1, y>>, FALSE)
  ELSE BorderLine(<<x, y>>, <<x, y + 1>>, TRUE)

\* the BorderLine built for the side (dx, dy) of cell (x, y), lines 740-749
side_border_line(x, y, dx, dy) ==
  IF dx = 0
  THEN BorderLine(IF dy < 0 THEN <<x, y>> ELSE <<x, y + 1>>,
                  IF dy < 0 THEN <<x + 1, y>> ELSE <<x + 1, y + 1>>, FALSE)
  ELSE BorderLine(IF dx < 0 THEN <<x, y>> ELSE <<x + 1, y>>,
                  IF dx < 0 THEN <<x, y + 1>> ELSE <<x + 1, y + 1>>, TRUE)

\* _tiles_to_border_lines.  The loops of lines 732-753 visit the sides of
\* the listed cells in order (cell i, side k is visit 4 (i - 1) + k); a
\* visit of a side facing a non-member builds a line, which is appended
\* unless _lines_equal finds it among the lines appended before, that is,
\* unless an earlier visit built an equal line.
_tiles_to_border_lines(tile_positions) ==
  IF Len(tile_positions) = 0 THEN << >>
  ELSE LET tile_set == ToSet(tile_positions)
           visit == [n \in 1..(Len(SIDES) * Len(tile_positions)) |->
                       LET pos == tile_positions[((n - 1) \div Len(SIDES)) + 1]
                           side == SIDES[((n - 1) % Len(SIDES)) + 1]
                       IN [n |-> n,
                           faces_outside |-> <<pos[1] + side[1], pos[2] + side[2]>> \notin tile_set,
                           border_line |-> side_border_line(pos[1], pos[2], side[1], side[2])]]
           appended(v) ==
             /\ v.faces_outside
             /\ ~\E m \in 1..(v.n - 1) :
                   visit[m].faces_outside /\ _lines_equal(v.border_line, visit[m].border_line)
           kept == SelectSeq(visit, appended)
       IN [i \in 1..Len(kept) |-> kept[i].border_line]

\* ---------------------------------------------------------- random source
\* The module `random` is a seeded pseudo-random stream.  The operators
\* below give, for a seed, one outcome of each call the engine makes; a
\* game draws its seed from 1..MaxSeed.
\* random.shuffle(indices) of round `round` (line 551): a rotation
random_shuffle_indices(seed, round) ==
  [k \in 1..Len(TILE_TYPES) |-> ((k - 1 + seed + round) % Len(TILE_TYPES)) + 1]

\* random.shuffle(pool) (line 561): a stride permutation (7 is prime to 52)
random_shuffle_pool(seed, pool) ==
  [k \in 1..Len(pool) |-> pool[((7 * k + seed) % Len(pool)) + 1]]

\* random.choice(chunk_types), random.randint(1, 9) of the first choice of
\* draw number k (lines 576-577)
random_chunk_type1(seed, k) == ChunkType[((seed + k) % Len(ChunkType)) + 1]
random_chunk_position1(seed, k) == ((seed + 4 * k) % 9) + 1

\* the same two calls in attempt a of the retry loop (lines 586-587); the
\* stream repeats the first draw in all attempts when (seed + k) % 3 = 0
random_chunk_type2(seed, k, a) == ChunkType[((seed + k + a) % Len(ChunkType)) + 1]
random_chunk_position2(seed, k, a) ==
  IF (seed + k) % 3 = 0 THEN random_chunk_position1(seed, k)
  ELSE ((seed + 4 * k + a) % 9) + 1

\* --------------------------------------------------- choice pool generator
Sum(counts) ==
  LET RECURSIVE sum_to(_)
      sum_to(n) == IF n = 0 THEN 0 ELSE counts[n] + sum_to(n - 1)
  IN sum_to(Len(counts))

\* the while/for loops of lines 550-557, at position k of the shuffled
\* indices of round `round`
RECURSIVE distribute(_, _, _, _, _)
distribute(counts, remaining, k, round, seed) ==
  IF remaining <= 0 THEN counts
  ELSE IF k > Len(TILE_TYPES) THEN distribute(counts, remaining, 1, round + 1, seed)
  ELSE LET i == random_shuffle_indices(seed, round)[k]
       IN IF counts[i] < MAX_COUNTS[i]
          THEN distribute([counts EXCEPT ![i] = @ + 1], remaining - 1, k + 1, round, seed)
          ELSE distribute(counts, remaining, k + 1, round, seed)

\* pool.extend([tile] * count) for each type in turn (lines 558-560)
RECURSIVE extend_pool(_, _)
extend_pool(counts, i) ==
  IF i > Len(TILE_TYPES) THEN << >>
  ELSE [k \in 1..counts[i] |-> TILE_TYPES[i]] \o extend_pool(counts, i + 1)

generate_bounded_tile_pool(seed) ==
  LET counts == distribute(MIN_COUNTS, TOTAL - Sum(MIN_COUNTS), 1, 1, seed)
  IN random_shuffle_pool(seed, extend_pool(counts, 1))

\* the retry loop of lines 585-597: the choices it appends, which is the
\* draw of the first attempt that does not collide with the first choice,
\* or nothing when all max_attempts attempts collide
retry_second_choice(first_choice, tile_type2, seed, k) ==
  LET second_choice(a) == Choice(tile_type2, random_chunk_type2(seed, k, a),
                                 random_chunk_position2(seed, k, a))
      accepted(a) == \/ second_choice(a).tile_type # first_choice.tile_type
                     \/ second_choice(a).chunk_position # first_choice.chunk_position
  IN IF \A a \in 0..(max_attempts - 1) : ~accepted(a) THEN << >>
     ELSE << second_choice(CHOOSE a \in 0..(max_attempts - 1) :
                             accepted(a) /\ \A b \in 0..(a - 1) : ~accepted(b)) >>

\* mutant of fallback_second_choice: the position is always moved up
fallback_second_choice_always_up(first_choice) ==
  Choice(first_choice.tile_type, first_choice.chunk_type, first_choice.chunk_position + 1)

\* the forced second choice of lines 598-612
fallback_second_choice(first_choice) ==
  IF first_choice.chunk_position < 9
  THEN Choice(first_choice.tile_type, first_choice.chunk_type, first_choice.chunk_position + 1)
  ELSE Choice(first_choice.tile_type, first_choice.chunk_type, first_choice.chunk_position - 1)

\* mutant of generate_choice: the cursor is advanced before the pool is
\* found to be exhausted
generate_choice_advance_first(pool, pool_index, seed) ==
  [result |-> IF pool_index + 2 > Len(pool)
              THEN "ValueError: Not enough tile types left in the pool" ELSE "ok",
   choices |-> IF pool_index + 2 > Len(pool) THEN << >>
               ELSE << Choice(pool[pool_index + 1], "cluster", 1),
                       Choice(pool[pool_index + 2], "cluster", 2) >>,
   pool_index |-> pool_index + 2]

\* mutant of generate_choice: the test for an exhausted pool is off by one
generate_choice_keep_one_pair(pool, pool_index, seed) ==
  IF pool_index + 2 >= Len(pool)
  THEN [result |-> "ValueError: Not enough tile types left in the pool",
        choices |-> << >>, pool_index |-> pool_index]
  ELSE LET k == pool_index \div 2
           first_choice == Choice(pool[pool_index + 1], random_chunk_type1(seed, k),
                                  random_chunk_position1(seed, k))
           drawn == retry_second_choice(first_choice, pool[pool_index + 2], seed, k)
       IN [result |-> "ok",
           choices |-> << first_choice, IF Len(drawn) = 0
                                        THEN fallback_second_choice(first_choice)
                                        ELSE drawn[1] >>,
           pool_index |-> pool_index + 2]

\* mutant of generate_choice: both tile types are read at the cursor
generate_choice_same_entry(pool, pool_index, seed) ==
  IF pool_index + 2 > Len(pool)
  THEN [result |-> "ValueError: Not enough tile types left in the pool",
        choices |-> << >>, pool_index |-> pool_index]
  ELSE LET k == pool_index \div 2
           first_choice == Choice(pool[pool_index + 1], random_chunk_type1(seed, k),
                                  random_chunk_position1(seed, k))
           drawn == retry_second_choice(first_choice, pool[pool_index + 1], seed, k)
       IN [result |-> "ok",
           choices |-> << first_choice, IF Len(drawn) = 0
                                        THEN fallback_second_choice(first_choice)
                                        ELSE drawn[1] >>,
           pool_index |-> pool_index + 2]

\* generate_choice: the call's result, the choices returned and the pool
\* cursor after the call
generate_choice(pool, pool_index, seed) ==
  IF pool_index + 2 > Len(pool)
  THEN [result |-> "ValueError: Not enough tile types left in the pool",
        choices |-> << >>, pool_index |-> pool_index]
  ELSE LET tile_type1 == pool[pool_index + 1]
           tile_type2 == pool[pool_index + 2]
           k == pool_index \div 2
           first_choice == Choice(tile_type1, random_chunk_type1(seed, k),
                                  random_chunk_position1(seed, k))
           drawn == retry_second_choice(first_choice, tile_type2, seed, k)
           second_choice == IF Len(drawn) = 0 THEN fallback_second_choice(first_choice)
                            ELSE drawn[1]
       IN [result |-> "ok", choices |-> << first_choice, second_choice >>,
           pool_index |-> pool_index + 2]

\* ------------------------------------------------------ turn state machine
decide_end(save_state) == save_state.current_turn > Len(TURN_ACTIONS)

\* mutant of decide_action: the border turn is not told apart and draws too
decide_action_draw_on_border(save_state, pool, pool_index, seed) ==
  IF decide_end(save_state)
  THEN [result |-> "ok", choices |-> << >>, pool_index |-> pool_index]
  ELSE generate_choice(pool, pool_index, seed)

\* decide_action: result, returned list and pool cursor after the call
decide_action(save_state, pool, pool_index, seed) ==
  IF decide_end(save_state)
  THEN [result |-> "ok", choices |-> << >>, pool_index |-> pool_index]
  ELSE IF save_state.current_turn - 1 >= Len(TURN_ACTIONS)
  THEN [result |-> "ok", choices |-> << >>, pool_index |-> pool_index]
  ELSE IF TURN_ACTIONS[save_state.current_turn] = "border"
  THEN [result |-> "ok", choices |-> << >>, pool_index |-> pool_index]
  ELSE generate_choice(pool, pool_index, seed)

\* the phase get_game_summary reports (lines 835-836)
phase(save_state) ==
  IF save_state.current_turn - 1 < Len(TURN_ACTIONS)
  THEN TURN_ACTIONS[save_state.current_turn] ELSE "ended"

\* a reference no object of the store h has
NewRef(h) == (CHOOSE r \in DOMAIN h : \A q \in DOMAIN h : q <= r) + 1

\* mutant of copy_deepcopy: no copy is made, the same object is returned
copy_deepcopy_alias(h, save_state) == [heap |-> h, ref |-> save_state]

\* copy.deepcopy(save_state) (line 770): a new object with equal contents
copy_deepcopy(h, save_state) ==
  [heap |-> [r \in DOMAIN h \cup { NewRef(h) } |-> IF r \in DOMAIN h THEN h[r] ELSE h[save_state]],
   ref |-> NewRef(h)]

\* mutant of placement_branch: the chosen tile is not put on the board
placement_branch_no_tile(s, chosen_tile) == s

\* the tile placement branch of make_turn (lines 818-825)
placement_branch(s, chosen_tile) ==
  [s EXCEPT !.placed_tiles = Append(@, chosen_tile)]

\* mutant of border_branch: the new lines and island replace the old ones
border_branch_replace(s, border_tiles, border_lines) ==
  [s EXCEPT !.border_lines = border_lines,
            !.islands = << Island(border_lines, ToSet(border_tiles),
                                  Len(border_tiles) < 10) >>]

\* mutant of border_branch: a region of 10 cells still counts as a lake
border_branch_lake_of_10(s, border_tiles, border_lines) ==
  [s EXCEPT !.border_lines = @ \o border_lines,
            !.islands = Append(@, Island(border_lines, ToSet(border_tiles),
                                         Len(border_tiles) <= 10))]

\* mutant of border_branch: the new lines are put before the old ones
border_branch_prepend(s, border_tiles, border_lines) ==
  [s EXCEPT !.border_lines = border_lines \o @,
            !.islands = Append(@, Island(border_lines, ToSet(border_tiles),
                                         Len(border_tiles) < 10))]

\* the border branch of make_turn for a validated region (lines 785-803)
border_branch(s, border_tiles, border_lines) ==
  [s EXCEPT !.border_lines = @ \o border_lines,
            !.islands = Append(@, Island(border_lines, ToSet(border_tiles),
                                         Len(border_tiles) < 10))]

\* mutant of update_save_state: the turn is counted but not recorded
update_save_state_no_record(s, turn_history) ==
  [s EXCEPT !.current_turn = @ + 1]

\* the update that ends make_turn (lines 827-829)
update_save_state(s, turn_history) ==
  [s EXCEPT !.choice_history = Append(@, turn_history),
            !.current_turn = @ + 1]

\* make_turn on the object store h: the call's result, the store after the
\* call and the reference returned (0 when the call raises; the copy made
\* before a raise is unreachable and is dropped)
make_turn(h, save_state, chosen_choice, discarded_choice, tile_position, border_tiles) ==
  IF decide_end(h[save_state])
  THEN [result |-> "ValueError: Cannot make turn: game has ended", heap |-> h, ref |-> 0]
  ELSE LET copied == copy_deepcopy(h, save_state)
           new_save_state == copied.ref
           chosen_tile == PlacedTile(chosen_choice, tile_position)
           discarded_tile == PlacedTile(discarded_choice, tile_position)
           turn_index == h[save_state].current_turn - 1
           is_border == TURN_ACTIONS[turn_index + 1] = "border"
       IN IF is_border /\ Truthy(border_tiles) /\ ~_validate_border_tiles(border_tiles.list)
          THEN [result |-> "ValueError: Invalid border tiles", heap |-> h, ref |-> 0]
          ELSE LET border_lines == IF is_border /\ Truthy(border_tiles)
                                   THEN _tiles_to_border_lines(border_tiles.list) ELSE << >>
                   s0 == copied.heap[new_save_state]
                   s1 == IF is_border
                         THEN IF Truthy(border_tiles)
                              THEN border_branch(s0, border_tiles.list, border_lines)
                              ELSE s0
                         ELSE placement_branch(s0, chosen_tile)
                   turn_history == TurnHistory(chosen_tile, discarded_tile, border_lines)
               IN [result |-> "ok",
                   heap |-> [copied.heap EXCEPT ![new_save_state] = update_save_state(s1, turn_history)],
                   ref |-> new_save_state]

\* ------------------------------------------------------- scoring engine
abs(n) == IF n < 0 THEN -n ELSE n

\* is (x, y) a cell of the grid
in_grid(x, y) == 0 <= x /\ x < GRID_SIZE /\ 0 <= y /\ y < GRID_SIZE

\* the 4 orthogonal neighbours inside the grid, in the order of line 294
_get_adjacent_positions(position) ==
  LET offsets == << <<-1, 0>>, <<1, 0>>, <<0, -1>>, <<0, 1>> >>
      inside == SelectSeq(offsets, LAMBDA d : in_grid(position[1] + d[1], position[2] + d[2]))
  IN [k \in 1..Len(inside) |-> << position[1] + inside[k][1], position[2] + inside[k][2] >>]

\* the 8 surrounding positions inside the grid, in the order of lines 304-305
_get_nearby_positions(position) ==
  LET offsets == << <<-1, -1>>, <<-1, 0>>, <<-1, 1>>, <<0, -1>>, <<0, 1>>,
                    <<1, -1>>, <<1, 0>>, <<1, 1>> >>
      inside == SelectSeq(offsets, LAMBDA d : in_grid(position[1] + d[1], position[2] + d[2]))
  IN [k \in 1..Len(inside) |-> << position[1] + inside[k][1], position[2] + inside[k][2] >>]

\* the first tile of placed_tiles at the position: << tile >>, or << >> for None
_get_tile_at_position(position, save_state) ==
  LET found == SelectSeq(save_state.placed_tiles, LAMBDA tile : tile.tile_position = position)
  IN IF Len(found) = 0 THEN << >> ELSE << found[1] >>

\* mutant of _is_on_island: the cells of a lake do not count
_is_on_island_not_in_lake(position, save_state) ==
  \E i \in DOMAIN save_state.islands :
     /\ ~save_state.islands[i].is_lake
     /\ position \in save_state.islands[i].enclosed_positions

_is_on_island(position, save_state) ==
  \E i \in DOMAIN save_state.islands : position \in save_state.islands[i].enclosed_positions

_is_on_same_island(pos1, pos2, save_state) ==
  \E i \in DOMAIN save_state.islands :
     /\ pos1 \in save_state.islands[i].enclosed_positions
     /\ pos2 \in save_state.islands[i].enclosed_positions

\* is the first tile at pos a tile of the given type (`tile and tile.choice.tile_type == ...`)
tile_at_is(pos, tile_type, save_state) ==
  LET tile == _get_tile_at_position(pos, save_state)
  IN Len(tile) = 1 /\ tile[1].choice.tile_type = tile_type

\* Manhattan distance of two positions (lines 351, 366)
distance(p, q) == abs(p[1] - q[1]) + abs(p[2] - q[2])

\* mutant of _calculate_ship_points: empty island cells are not looked at
_calculate_ship_points_tiles_only(position, save_state) ==
  IF _is_on_island(position, save_state) THEN 0
  ELSE LET tiles == save_state.placed_tiles
           to_tiles == { distance(position, tiles[i].tile_position) : i \in
                          { j \in DOMAIN tiles :
                              /\ tiles[j].tile_position # position
                              /\ \/ tiles[j].choice.tile_type = "ships"
                                 \/ _is_on_island(tiles[j].tile_position, save_state) } }
       IN IF to_tiles = {} THEN 0 ELSE SetMin(to_tiles)

_calculate_ship_points(position, save_state) ==
  IF _is_on_island(position, save_state) THEN 0
  ELSE LET tiles == save_state.placed_tiles
           \* lines 343-352: other ships and tiles that lie on an island
           to_tiles == { distance(position, tiles[i].tile_position) : i \in
                          { j \in DOMAIN tiles :
                              /\ tiles[j].tile_position # position
                              /\ \/ tiles[j].choice.tile_type = "ships"
                                 \/ _is_on_island(tiles[j].tile_position, save_state) } }
           \* lines 355-367: empty grid cells that lie on an island
           empty_on_island == { empty_pos \in (0..(GRID_SIZE - 1)) \X (0..(GRID_SIZE - 1)) :
                                  /\ empty_pos # position
                                  /\ \A j \in DOMAIN tiles : tiles[j].tile_position # empty_pos
                                  /\ _is_on_island(empty_pos, save_state) }
           to_empty == { distance(position, empty_pos) : empty_pos \in empty_on_island }
       IN IF to_tiles \cup to_empty = {} THEN 0 ELSE SetMin(to_tiles \cup to_empty)

_calculate_wave_points(position, save_state) ==
  LET tiles == save_state.placed_tiles
      same_row_or_column == \E i \in DOMAIN tiles :
                               /\ tiles[i].choice.tile_type = "waves"
                               /\ tiles[i].tile_position # position
                               /\ \/ tiles[i].tile_position[1] = position[1]
                                  \/ tiles[i].tile_position[2] = position[2]
      nearby == _get_nearby_positions(position)
      nearby_wave == \E k \in DOMAIN nearby : tile_at_is(nearby[k], "waves", save_state)
      follows_rules == ~same_row_or_column /\ ~nearby_wave
  IN IF follows_rules THEN 2 ELSE 0

_calculate_beach_points(position, save_state) ==
  Len(SelectSeq(_get_adjacent_positions(position),
                LAMBDA adj_pos : _is_on_island(adj_pos, save_state)))

_calculate_house_points(position, save_state) ==
  LET nearby == _get_nearby_positions(position)
      unique_features ==
        { _get_tile_at_position(nearby[k], save_state)[1].choice.tile_type : k \in
            { j \in DOMAIN nearby :
                /\ Len(_get_tile_at_position(nearby[j], save_state)) = 1
                /\ ~tile_at_is(nearby[j], "houses", save_state) } }
  IN Cardinality(unique_features)

_has_another_church_on_island(position, save_state) ==
  \E i \in DOMAIN save_state.placed_tiles :
     LET tile == save_state.placed_tiles[i]
     IN /\ tile.choice.tile_type = "churches"
        /\ tile.tile_position # position
        /\ _is_on_same_island(position, tile.tile_position, save_state)

_calculate_church_points(position, save_state) ==
  IF _has_another_church_on_island(position, save_state) THEN 0
  ELSE LET tiles == save_state.placed_tiles
           nearby == _get_nearby_positions(position)
           nearby_houses == { nearby[k] : k \in { j \in DOMAIN nearby :
                                 tile_at_is(nearby[j], "houses", save_state) } }
           island_houses == { i \in DOMAIN tiles :
                                /\ tiles[i].choice.tile_type = "houses"
                                /\ _is_on_same_island(position, tiles[i].tile_position, save_state)
                                /\ tiles[i].tile_position \notin nearby_houses }
       IN 2 * Cardinality(nearby_houses) + Cardinality(island_houses)

\* _dfs_forest on the pair of sets it updates: [visited, group] after the call
RECURSIVE _dfs_forest(_, _, _)
_dfs_forest(position, save_state, sets) ==
  IF position \in sets.visited THEN sets
  ELSE LET visited == [sets EXCEPT !.visited = @ \cup { position }]
       IN IF ~tile_at_is(position, "forest", save_state) THEN visited
          ELSE LET adjacent == _get_adjacent_positions(position)
                   RECURSIVE for_adjacent(_, _)
                   for_adjacent(k, acc) ==
                     IF k > Len(adjacent) THEN acc
                     ELSE for_adjacent(k + 1, _dfs_forest(adjacent[k], save_state, acc))
               IN for_adjacent(1, [visited EXCEPT !.group = @ \cup { position }])

_get_forest_group(position, save_state) ==
  _dfs_forest(position, save_state, [visited |-> {}, group |-> {}]).group

\* the order of Python tuples: by x, then by y
tuple_less(p, q) == p[1] < q[1] \/ (p[1] = q[1] /\ p[2] < q[2])

\* sorted(forest_group).index(position) (line 460)
sorted_index(forest_group, position) ==
  Cardinality({ q \in forest_group : tuple_less(q, position) })

_calculate_forest_points(position, save_state) ==
  LET forest_group == _get_forest_group(position, save_state)
      n == Cardinality(forest_group)
      total_group_points == (n - 1) * 2
      base_points_per_forest == total_group_points \div n
      remainder == total_group_points % n
      forest_index == sorted_index(forest_group, position)
  IN IF n <= 1 THEN 0
     ELSE IF forest_index < remainder THEN base_points_per_forest + 1
     ELSE base_points_per_forest

_calculate_mountain_points(position, save_state) ==
  LET nearby == _get_nearby_positions(position)
  IN 2 * Cardinality({ k \in DOMAIN nearby : tile_at_is(nearby[k], "forest", save_state) })

_calculate_tile_points(placed_tile, save_state) ==
  LET tile_type == placed_tile.choice.tile_type
      position == placed_tile.tile_position
  IN CASE tile_type = "ships" -> _calculate_ship_points(position, save_state)
       [] tile_type = "waves" -> _calculate_wave_points(position, save_state)
       [] tile_type = "beach" -> _calculate_beach_points(position, save_state)
       [] tile_type = "houses" -> _calculate_house_points(position, save_state)
       [] tile_type = "churches" -> _calculate_church_points(position, save_state)
       [] tile_type = "forest" -> _calculate_forest_points(position, save_state)
       [] tile_type = "mountain" -> _calculate_mountain_points(position, save_state)
       [] OTHER -> 0

\* mutant of _is_feature_in_wrong_location: a beach on an island is accepted
_is_feature_in_wrong_location_beach_anywhere(tile, save_state) ==
  LET tile_type == tile.choice.tile_type
      is_on_island == _is_on_island(tile.tile_position, save_state)
  IN \/ tile_type \in { "houses", "churches", "forest", "mountain" } /\ ~is_on_island
     \/ tile_type \in { "ships", "waves" } /\ is_on_island

_is_feature_in_wrong_location(tile, save_state) ==
  LET tile_type == tile.choice.tile_type
      is_on_island == _is_on_island(tile.tile_position, save_state)
  IN \/ tile_type \in { "houses", "churches", "forest", "mountain" } /\ ~is_on_island
     \/ tile_type \in { "ships", "waves" } /\ is_on_island
     \/ tile_type = "beach" /\ is_on_island

_calculate_location_penalties(save_state) ==
  Sum([i \in DOMAIN save_state.placed_tiles |->
         IF _is_feature_in_wrong_location(save_state.placed_tiles[i], save_state)
         THEN 5 ELSE 0])

\* mutant of calculate_points: the score is computed whether or not the
\* game has ended
calculate_points_any_time(save_state) ==
  Sum([i \in DOMAIN save_state.placed_tiles |->
         _calculate_tile_points(save_state.placed_tiles[i], save_state)])
  - _calculate_location_penalties(save_state)

calculate_points(save_state) ==
  IF ~decide_end(save_state) THEN 0
  ELSE Sum([i \in DOMAIN save_state.placed_tiles |->
              _calculate_tile_points(save_state.placed_tiles[i], save_state)])
       - _calculate_location_penalties(save_state)

\* ------------------------------------------------------------ the program
VARIABLES
  heap,                  \* the SaveState objects the caller can reach, by reference
  current,               \* the caller's reference to the state being played
  tile_type_pool,        \* GameRunner.tile_type_pool
  tile_type_pool_index,  \* GameRunner.tile_type_pool_index
  current_choices,       \* the caller's cache of decide_action's last result
  outcome,               \* the last call: operation, arguments, result
  seed,                  \* the seed of the random source of this game
  deviations,            \* calls so far that departed from the baseline play
  frame                  \* local variables of the pool generator while it runs

vars == << heap, current, tile_type_pool, tile_type_pool_index, current_choices,
           outcome, seed, deviations, frame >>

\* no call of the pool generator is in progress
NoFrame == [pc |-> "none"]

\* ---- inputs
\* cell number k of the grid in row-major order
Cell(k) == << k % GRID_SIZE, k \div GRID_SIZE >>

\* the filled n x n square with top-left cell (x0, y0), row by row
Square(x0, y0, n) == [k \in 1..(n * n) |-> << x0 + ((k - 1) % n), y0 + ((k - 1) \div n) >>]

\* the 8 outer cells of a 3x3 block (valid_tiles of test_backend.py)
Ring == << <<0, 0>>, <<1, 0>>, <<2, 0>>, <<2, 1>>, <<2, 2>>, <<1, 2>>, <<0, 2>>, <<0, 1>> >>
\* two separate dominoes (invalid_tiles of test_backend.py)
TwoParts == << <<0, 0>>, <<1, 0>>, <<2, 2>>, <<3, 2>> >>

\* baseline border turn: a 4x4 square apart from the islands drawn so far
BaselineRegion(s) ==
  Some(Square(5 * (Len(s.islands) % 2), 5 * (Len(s.islands) \div 2), 4))

\* what a caller may submit as border_tiles instead
BorderInputs ==
  { None, Some(<< >>), Some(Square(0, 0, 3)), Some(Square(0, 0, 4)), Some(Ring), Some(TwoParts) }

\* the dummy choices and position of a border submission (game_ui.py
\* complete_border_turn, test_backend.py test 4)
dummy_choice1 == Choice("houses", "cluster", 1)
dummy_choice2 == Choice("ships", "cluster", 2)
dummy_position == << 0, 0 >>

\* baseline placement: the first cell, in row-major order, holding no tile
FirstFreeCell(s) ==
  LET occupied == { s.placed_tiles[i].tile_position : i \in DOMAIN s.placed_tiles }
      k == CHOOSE k \in 0..(GRID_SIZE * GRID_SIZE - 1) :
             /\ Cell(k) \notin occupied
             /\ \A j \in 0..(k - 1) : Cell(j) \in occupied
  IN Cell(k)

\* a placement that departs from the baseline: onto the first tile placed
OccupiedCells(s) ==
  IF Len(s.placed_tiles) = 0 THEN {} ELSE { s.placed_tiles[1].tile_position }

Call(op, save_state, tile_position, border_tiles, result, ret) ==
  [op |-> op, save_state |-> save_state, tile_position |-> tile_position,
   border_tiles |-> border_tiles, result |-> result, ret |-> ret]

\* ---- Init: a GameRunner after create_new_game (lines 200-222)
Init ==
  /\ seed \in 1..MaxSeed
  /\ heap = 1 :> SaveState(1, << >>, "game_20260101_000000", "2026-01-01T00:00:00",
                        << >>, << >>, << >>)
  /\ current = 1
  /\ tile_type_pool = generate_bounded_tile_pool(seed)
  /\ tile_type_pool_index = 0
  /\ current_choices = None
  /\ outcome = Call("create_new_game", 0, dummy_position, None, "ok", 1)
  /\ deviations = 0
  /\ frame = NoFrame

\* the objects the caller holds on to after a call: the game's first
\* snapshot, the state it passed to the call and the state it plays now;
\* every other object is unreachable and leaves the store
Retain(h, refs) == [r \in DOMAIN h \cap refs |-> h[r]]

\* ---- the caller's make_turn call and what it does with the result
CallMakeTurn(chosen_choice, discarded_choice, tile_position, border_tiles) ==
  \E r \in { make_turn(heap, current, chosen_choice, discarded_choice, tile_position, border_tiles) } :
     /\ current' = IF r.result = "ok" THEN r.ref ELSE current
     /\ heap' = Retain(r.heap, { 1, current, current' })
     /\ current_choices' = IF r.result = "ok" THEN None ELSE current_choices
     /\ outcome' = Call("make_turn", current, tile_position, border_tiles, r.result, r.ref)
     /\ UNCHANGED << tile_type_pool, tile_type_pool_index, seed, frame >>

\* the caller asks for this turn's choices: once per turn in the baseline,
\* again while it still holds choices as a deviation
DecideAction ==
  \E r \in { decide_action(heap[current], tile_type_pool, tile_type_pool_index, seed) } :
     /\ \/ current_choices.is_none /\ deviations' = deviations
        \/ ~current_choices.is_none /\ deviations < MaxDeviations /\ deviations' = deviations + 1
     /\ tile_type_pool_index' = r.pool_index
     /\ current_choices' = IF r.result = "ok" THEN Some(r.choices) ELSE current_choices
     /\ outcome' = Call("decide_action", current, dummy_position, None, r.result, 0)
     /\ UNCHANGED << heap, current, tile_type_pool, seed, frame >>

\* a placement turn: the caller places the first offered choice, on the
\* first free cell in the baseline, on an occupied cell as a deviation
PlaceTile ==
  /\ phase(heap[current]) = "choice"
  /\ ~current_choices.is_none
  /\ Len(current_choices.list) = 2
  /\ \/ /\ deviations' = deviations
        /\ CallMakeTurn(current_choices.list[1], current_choices.list[2],
                        FirstFreeCell(heap[current]), None)
     \/ /\ deviations < MaxDeviations
        /\ deviations' = deviations + 1
        /\ \E tile_position \in OccupiedCells(heap[current]) :
             CallMakeTurn(current_choices.list[1], current_choices.list[2], tile_position, None)

\* a deviation: the caller submits a border region on a placement turn,
\* without asking for choices (test_backend.py test 4)
DrawBorderEarly ==
  /\ phase(heap[current]) = "choice"
  /\ current_choices.is_none
  /\ deviations < MaxDeviations
  /\ deviations' = deviations + 1
  /\ CallMakeTurn(dummy_choice1, dummy_choice2, dummy_position, Some(Ring))

\* a border turn: the caller, having asked for choices and got none,
\* submits the baseline region, or as a deviation another region or none
DrawBorder ==
  /\ phase(heap[current]) = "border"
  /\ ~current_choices.is_none
  /\ \/ /\ deviations' = deviations
        /\ CallMakeTurn(dummy_choice1, dummy_choice2, dummy_position,
                        BaselineRegion(heap[current]))
     \/ /\ deviations < MaxDeviations
        /\ deviations' = deviations + 1
        /\ \E border_tiles \in BorderInputs \ { BaselineRegion(heap[current]) } :
             CallMakeTurn(dummy_choice1, dummy_choice2, dummy_position, border_tiles)

\* the caller, having asked for choices and got none, tries one more turn
\* after the last one
TurnAfterEnd ==
  /\ phase(heap[current]) = "ended"
  /\ ~current_choices.is_none
  /\ deviations' = deviations
  /\ \E border_tiles \in { None, Some(Square(0, 0, 3)) } :
       CallMakeTurn(dummy_choice1, dummy_choice2, dummy_position, border_tiles)

Next == DecideAction \/ PlaceTile \/ DrawBorderEarly \/ DrawBorder \/ TurnAfterEnd

Spec == Init /\ [][Next]_vars

\* ------------------------------------------------- the end of a stored game
\* A game stored near its end is loaded (SaveState.load_from_file) by a new
\* GameRunner, its last placement turns and its last border turn are played
\* on a corner of the grid, and the score is asked for.
\* the cells the tiles go on, in the order the caller fills them: three
\* cells of a 2x2 block and a cell two columns to its right
ScoreCells == << <<1, 0>>, <<0, 1>>, <<1, 1>>, <<3, 0>> >>

\* the region of the island the stored game holds: the top row strip
StoredRegion == << <<0, 0>>, <<1, 0>>, <<2, 0>>, <<3, 0>> >>
\* the region the caller may draw on the last border turn: the domino below it
LastRegion == << <<0, 1>>, <<1, 1>> >>

\* the stored games: at most MaxTiles placement turns before the last border
\* turn, no tile on the board, no island or the stored one
StoredGames ==
  LET blank(turn) == SaveState(turn, << >>, "game_20260101_000000", "2026-01-01T00:00:00",
                               << >>, << >>, << >>)
  IN { blank(turn) : turn \in (Len(TURN_ACTIONS) - MaxTiles)..Len(TURN_ACTIONS) }
     \cup { border_branch(blank(turn), StoredRegion, _tiles_to_border_lines(StoredRegion)) :
              turn \in (Len(TURN_ACTIONS) - MaxTiles)..Len(TURN_ACTIONS) }

ScoreInit ==
  /\ seed = 1
  /\ \E save_state \in StoredGames : heap = 1 :> save_state
  /\ current = 1
  /\ tile_type_pool = << >>
  /\ tile_type_pool_index = 0
  /\ current_choices = None
  /\ outcome = Call("load_from_file", 0, dummy_position, None, "ok", 1)
  /\ deviations = 0
  /\ frame = NoFrame

\* index in ScoreCells of the cell of the last tile placed, 0 on an empty board
LastCellIndex(s) ==
  IF Len(s.placed_tiles) = 0 THEN 0
  ELSE CHOOSE k \in DOMAIN ScoreCells :
         ScoreCells[k] = s.placed_tiles[Len(s.placed_tiles)].tile_position

\* a placement turn: a tile of any type on a later cell of ScoreCells, or as
\* a deviation, on the last placement turn, on top of the tile placed last
ScorePlaceTile ==
  /\ phase(heap[current]) = "choice"
  /\ \E tile_type \in ToSet(TILE_TYPES) :
       \/ /\ deviations' = deviations
          /\ \E k \in DOMAIN ScoreCells :
               /\ k > LastCellIndex(heap[current])
               /\ CallMakeTurn(Choice(tile_type, "cluster", 1), dummy_choice2, ScoreCells[k], None)
       \/ /\ deviations < MaxDeviations
          /\ deviations' = deviations + 1
          /\ phase([heap[current] EXCEPT !.current_turn = @ + 1]) = "border"
          /\ LastCellIndex(heap[current]) > 0
          /\ CallMakeTurn(Choice(tile_type, "cluster", 1), dummy_choice2,
                          ScoreCells[LastCellIndex(heap[current])], None)

\* the last border turn: no region, or the domino
ScoreDrawBorder ==
  /\ phase(heap[current]) = "border"
  /\ deviations' = deviations
  /\ \E border_tiles \in { None, Some(LastRegion) } :
       CallMakeTurn(dummy_choice1, dummy_choice2, dummy_position, border_tiles)

\* get_game_summary asks for the score of the current state (line 843)
CalculatePoints ==
  /\ outcome.op # "calculate_points"
  /\ outcome' = Call("calculate_points", current, dummy_position, None, "ok",
                     calculate_points(heap[current]))
  /\ UNCHANGED << heap, current, tile_type_pool, tile_type_pool_index, current_choices,
                  seed, deviations, frame >>

ScoreNext == ScorePlaceTile \/ ScoreDrawBorder \/ CalculatePoints

ScoreSpec == ScoreInit /\ [][ScoreNext]_vars

\* ------------------------------------------------ the pool generator, run
\* create_new_game on a new GameRunner, with generate_bounded_tile_pool
\* (lines 542-562) followed statement by statement.  random.shuffle(indices)
\* may return any order: the order is revealed one entry at a time, as the
\* for loop reads it, and frame.indices holds the entries read so far.
PoolInit ==
  /\ seed = 1
  /\ heap = << >>
  /\ current = 0
  /\ tile_type_pool = << >>
  /\ tile_type_pool_index = 0
  /\ current_choices = None
  /\ outcome = Call("GameRunner", 0, dummy_position, None, "ok", 0)
  /\ deviations = 0
  /\ frame = [pc |-> "while", counts |-> MIN_COUNTS,
              remaining |-> TOTAL - Sum(MIN_COUNTS), indices |-> << >>]

\* mutant of loop_body: a count may pass its maximum
loop_body_no_maximum(counts, remaining, i) ==
  [counts |-> [counts EXCEPT ![i] = @ + 1], remaining |-> remaining - 1]

\* the body of the for loop for index i (lines 553-555)
loop_body(counts, remaining, i) ==
  IF counts[i] < MAX_COUNTS[i]
  THEN [counts |-> [counts EXCEPT ![i] = @ + 1], remaining |-> remaining - 1]
  ELSE [counts |-> counts, remaining |-> remaining]

\* `while remaining > 0:` and the shuffle that starts a round (lines 550-551)
PoolWhile ==
  /\ frame.pc = "while"
  /\ frame' = IF frame.remaining > 0
              THEN [frame EXCEPT !.pc = "for", !.indices = << >>]
              ELSE [frame EXCEPT !.pc = "extend"]
  /\ UNCHANGED << heap, current, tile_type_pool, tile_type_pool_index, current_choices,
                  outcome, seed, deviations >>

\* one iteration of `for i in indices:` (lines 552-557), or its end
PoolFor ==
  /\ frame.pc = "for"
  /\ \/ /\ Len(frame.indices) = Len(TILE_TYPES)
        /\ frame' = [frame EXCEPT !.pc = "while"]
     \/ \E i \in DOMAIN TILE_TYPES \ ToSet(frame.indices) :
          \E r \in { loop_body(frame.counts, frame.remaining, i) } :
             \* `break` leaves the for loop; the while test then fails
             frame' = [pc |-> IF r.remaining # frame.remaining /\ r.remaining = 0
                              THEN "while" ELSE "for",
                       counts |-> r.counts, remaining |-> r.remaining,
                       indices |-> Append(frame.indices, i)]
  /\ UNCHANGED << heap, current, tile_type_pool, tile_type_pool_index, current_choices,
                  outcome, seed, deviations >>

\* lines 558-562 and the rest of create_new_game (lines 210-222): the pool is
\* filled type by type, shuffled and stored, and the new game is returned.
\* random.shuffle(pool) is any of TOTAL stride permutations here.
PoolReturn ==
  /\ frame.pc = "extend"
  /\ \E offset \in 1..TOTAL :
       tile_type_pool' = random_shuffle_pool(offset, extend_pool(frame.counts, 1))
  /\ tile_type_pool_index' = 0
  /\ heap' = 1 :> SaveState(1, << >>, "game_20260101_000000", "2026-01-01T00:00:00",
                         << >>, << >>, << >>)
  /\ current' = 1
  /\ outcome' = Call("create_new_game", 0, dummy_position, None, "ok", 1)
  /\ frame' = NoFrame
  /\ UNCHANGED << current_choices, seed, deviations >>

PoolNext == PoolWhile \/ PoolFor \/ PoolReturn

PoolSpec == PoolInit /\ [][PoolNext]_vars /\ WF_vars(PoolNext)

\* ------------------------------------------------ the draws of one turn
\* generate_choice, called again and again on a new game, one statement
\* group at a time: every outcome of random.choice and random.randint is a
\* step of its own, so that each path through the retry loop is taken.
ChoiceInit ==
  /\ seed \in 1..MaxSeed
  /\ heap = 1 :> SaveState(1, << >>, "game_20260101_000000", "2026-01-01T00:00:00",
                        << >>, << >>, << >>)
  /\ current = 1
  /\ tile_type_pool = generate_bounded_tile_pool(seed)
  /\ tile_type_pool_index = 0
  /\ current_choices = None
  /\ outcome = Call("create_new_game", 0, dummy_position, None, "ok", 1)
  /\ deviations = 0
  /\ frame = NoFrame

\* lines 566-583: the call starts; with too few entries left it raises,
\* else it draws the two tile types and the first choice and is running
ChoiceFirst ==
  /\ frame = NoFrame
  /\ outcome.result = "ok"
  /\ current_choices' = None
  /\ \/ /\ tile_type_pool_index + 2 > Len(tile_type_pool)
        /\ outcome' = Call("generate_choice", current, dummy_position, None,
                           "ValueError: Not enough tile types left in the pool", 0)
        /\ UNCHANGED << tile_type_pool_index, frame >>
     \/ /\ tile_type_pool_index + 2 <= Len(tile_type_pool)
        /\ tile_type_pool_index' = tile_type_pool_index + 2
        /\ \E chunk_type1 \in ToSet(ChunkType), chunk_position1 \in 1..9 :
             LET first_choice == Choice(tile_type_pool[tile_type_pool_index + 1],
                                        chunk_type1, chunk_position1)
             IN frame' = [pc |-> "while", attempts |-> 0, choices |-> << first_choice >>,
                          tile_type2 |-> tile_type_pool[tile_type_pool_index + 2]]
        /\ outcome' = Call("generate_choice", current, dummy_position, None, "running", 0)
  /\ UNCHANGED << heap, current, tile_type_pool, seed, deviations >>

\* lines 585-597: one attempt of the retry loop
ChoiceAttempt ==
  /\ frame.pc = "while"
  /\ frame.attempts < max_attempts
  /\ \E chunk_type2 \in ToSet(ChunkType), chunk_position2 \in 1..9 :
       LET first_choice == frame.choices[1]
           second_choice == Choice(frame.tile_type2, chunk_type2, chunk_position2)
       IN IF \/ second_choice.tile_type # first_choice.tile_type
             \/ second_choice.chunk_position # first_choice.chunk_position
          THEN frame' = [frame EXCEPT !.choices = Append(@, second_choice), !.pc = "if"]
          ELSE frame' = [frame EXCEPT !.attempts = @ + 1]
  /\ UNCHANGED << heap, current, tile_type_pool, tile_type_pool_index, current_choices,
                  outcome, seed, deviations >>

\* lines 598-616: after the loop, by break or with the attempts used up, the
\* forced second choice if none was appended, and the return (recorded
\* with the number of choices that were forced)
ChoiceReturn ==
  /\ \/ frame.pc = "if"
     \/ frame.pc = "while" /\ frame.attempts >= max_attempts
  /\ LET choices == IF Len(frame.choices) = 1
                    THEN Append(frame.choices, fallback_second_choice(frame.choices[1]))
                    ELSE frame.choices
     IN /\ current_choices' = Some(choices)
        /\ outcome' = Call("generate_choice", current, dummy_position, None, "ok",
                           Len(choices) - Len(frame.choices))
  /\ frame' = NoFrame
  /\ UNCHANGED << heap, current, tile_type_pool, tile_type_pool_index, seed, deviations >>

ChoiceNext == ChoiceFirst \/ ChoiceAttempt \/ ChoiceReturn

ChoiceSpec == ChoiceInit /\ [][ChoiceNext]_vars

\* ------------------------------------------------ dictionaries and back
\* A dict is a record under the keys the code writes.  A position is a
\* Python tuple; to_dict stores it as it is and from_dict rebuilds it with
\* tuple(...), so a dict holds it as a value tagged with its Python type.
py_tuple(items) == [type |-> "tuple", items |-> items]
\* tuple(value) of a tuple or a list: the tuple of its items
tuple(value) == value.items

\* list(a_set): the members in an order of the interpreter's choosing (here
\* ascending), each once
RECURSIVE list(_)
list(a_set) ==
  IF a_set = {} THEN << >>
  ELSE LET first == CHOOSE m \in a_set : \A q \in a_set : q = m \/ tuple_less(m, q)
       IN << first >> \o list(a_set \ { first })

\* data.get(key, default)
dict_get(data, key, default) == IF key \in DOMAIN data THEN data[key] ELSE default

Choice_to_dict(self) ==
  [tileType |-> self.tile_type, chunkType |-> self.chunk_type,
   chunkPosition |-> self.chunk_position]

Choice_from_dict(data) ==
  Choice(data["tileType"], data["chunkType"], data["chunkPosition"])

PlacedTile_to_dict(self) ==
  [chosenChoice |-> Choice_to_dict(self.choice), tilePosition |-> py_tuple(self.tile_position)]

PlacedTile_from_dict(data) ==
  PlacedTile(Choice_from_dict(data["chosenChoice"]), tuple(data["tilePosition"]))

BorderLine_to_dict(self) ==
  [startPos |-> py_tuple(self.start_pos), endPos |-> py_tuple(self.end_pos),
   isHorizontal |-> self.is_horizontal]

BorderLine_from_dict(data) ==
  BorderLine(tuple(data["startPos"]), tuple(data["endPos"]), data["isHorizontal"])

Island_to_dict(self) ==
  [borderLines |-> [i \in DOMAIN self.border_lines |-> BorderLine_to_dict(self.border_lines[i])],
   enclosedPositions |-> LET items == list(self.enclosed_positions) IN [i \in DOMAIN items |-> py_tuple(items[i])],
   isLake |-> self.is_lake]

Island_from_dict(data) ==
  Island([i \in DOMAIN data["borderLines"] |-> BorderLine_from_dict(data["borderLines"][i])],
         ToSet([i \in DOMAIN data["enclosedPositions"] |-> tuple(data["enclosedPositions"][i])]),
         data["isLake"])

TurnHistory_to_dict(self) ==
  [chosenChoice |-> PlacedTile_to_dict(self.chosen_tile),
   discardedChoice |-> PlacedTile_to_dict(self.discarded_tile),
   borderLines |-> [i \in DOMAIN self.border_lines |-> BorderLine_to_dict(self.border_lines[i])]]

TurnHistory_from_dict(data) ==
  TurnHistory(PlacedTile_from_dict(data["chosenChoice"]),
              PlacedTile_from_dict(data["discardedChoice"]),
              LET items == dict_get(data, "borderLines", << >>) IN [i \in DOMAIN items |-> BorderLine_from_dict(items[i])])

SaveState_to_dict(self) ==
  [currentTurn |-> self.current_turn,
   choiceHistory |-> [i \in DOMAIN self.choice_history |-> TurnHistory_to_dict(self.choice_history[i])],
   gameId |-> self.game_id,
   createdAt |-> self.created_at,
   placedTiles |-> [i \in DOMAIN self.placed_tiles |-> PlacedTile_to_dict(self.placed_tiles[i])],
   borderLines |-> [i \in DOMAIN self.border_lines |-> BorderLine_to_dict(self.border_lines[i])],
   islands |-> [i \in DOMAIN self.islands |-> Island_to_dict(self.islands[i])]]

\* mutant of SaveState_from_dict: the placed tiles are looked up under the
\* field's name instead of the dict's key
SaveState_from_dict_wrong_key(data) ==
  SaveState(data["currentTurn"],
            [i \in DOMAIN data["choiceHistory"] |-> TurnHistory_from_dict(data["choiceHistory"][i])],
            data["gameId"],
            data["createdAt"],
            LET items == dict_get(data, "placed_tiles", << >>) IN [i \in DOMAIN items |-> PlacedTile_from_dict(items[i])],
            LET items == dict_get(data, "borderLines", << >>) IN [i \in DOMAIN items |-> BorderLine_from_dict(items[i])],
            LET items == dict_get(data, "islands", << >>) IN [i \in DOMAIN items |-> Island_from_dict(items[i])])

SaveState_from_dict(data) ==
  SaveState(data["currentTurn"],
            [i \in DOMAIN data["choiceHistory"] |-> TurnHistory_from_dict(data["choiceHistory"][i])],
            data["gameId"],
            data["createdAt"],
            LET items == dict_get(data, "placedTiles", << >>) IN [i \in DOMAIN items |-> PlacedTile_from_dict(items[i])],
            LET items == dict_get(data, "borderLines", << >>) IN [i \in DOMAIN items |-> BorderLine_from_dict(items[i])],
            LET items == dict_get(data, "islands", << >>) IN [i \in DOMAIN items |-> Island_from_dict(items[i])])

\* ---- a stored game is loaded, played on and turned into a dict and back
\* the turns of the end of a stored game, until the state is converted
SavePlay ==
  /\ outcome.op # "from_dict"
  /\ (ScorePlaceTile \/ ScoreDrawBorder)

\* SaveState.from_dict(save_state.to_dict()): the caller holds the state and
\* the state rebuilt from its dict
ToDictFromDict ==
  /\ outcome.op # "from_dict"
  /\ heap' = (NewRef(heap) :> SaveState_from_dict(SaveState_to_dict(heap[current]))) @@ heap
  /\ outcome' = Call("from_dict", current, dummy_position, None, "ok", NewRef(heap))
  /\ UNCHANGED << current, tile_type_pool, tile_type_pool_index, current_choices, seed,
                  deviations, frame >>

SaveNext == SavePlay \/ ToDictFromDict

SaveSpec == ScoreInit /\ [][SaveNext]_vars

\* ------------------------------------------------- one border submission
\* A game stored at its first border turn is loaded and the caller submits
\* a candidate region: any set of cells of a 4x3 corner of the grid, or one
\* of the larger regions below.
\* the cells of the corner, row by row
Window ==
  << <<0, 0>>, <<1, 0>>, <<2, 0>>, <<3, 0>>,
     <<0, 1>>, <<1, 1>>, <<2, 1>>, <<3, 1>>,
     <<0, 2>>, <<1, 2>>, <<2, 2>>, <<3, 2>> >>

\* the top row and the cells below its last cell: an L of 13 cells
LongL == [k \in 1..13 |-> IF k <= 9 THEN << k - 1, 0 >> ELSE << 8, k - 9 >>]

\* a region submitted with one cell listed twice
SquareTwice == Square(0, 0, 3) \o << <<0, 0>> >>

Regions ==
  { list(cells) : cells \in (SUBSET ToSet(Window)) \ { {} } }
    \cup { Ring, TwoParts, Square(0, 0, 4), Square(0, 0, 5), Square(0, 0, 7), LongL,
           SquareTwice }

RegionInit ==
  /\ seed = 1
  /\ heap = 1 :> SaveState(10, << >>, "game_20260101_000000", "2026-01-01T00:00:00",
                        << >>, << >>, << >>)
  /\ current = 1
  /\ tile_type_pool = << >>
  /\ tile_type_pool_index = 0
  /\ current_choices = None
  /\ outcome = Call("load_from_file", 0, dummy_position, None, "ok", 1)
  /\ deviations = 0
  /\ frame = NoFrame

\* the border turn: the caller submits a region, once (game_ui.py
\* complete_border_turn)
SubmitRegion ==
  /\ outcome.op = "load_from_file"
  /\ phase(heap[current]) = "border"
  /\ deviations' = deviations
  /\ \E border_tiles \in Regions :
       CallMakeTurn(dummy_choice1, dummy_choice2, dummy_position, Some(border_tiles))

\* does the ray to the right of the centre of cell (x, y) cross the
\* segment: lines 703-710 of game_ui.py, in doubled coordinates so that
\* the centre (x + 0.5, y + 0.5) and the crossing point stay integers
ray_crosses(x, y, start, end) ==
  LET x1 == start[1]
      y1 == start[2]
      x2 == end[1]
      y2 == end[2]
      min_y == IF y1 < y2 THEN y1 ELSE y2
      max_y == IF y1 < y2 THEN y2 ELSE y1
      ray_x2 == 2 * x + 1
      ray_y2 == 2 * y + 1
  IN /\ 2 * min_y < ray_y2
     /\ ray_y2 <= 2 * max_y
     /\ y2 # y1
     /\ IF y2 > y1
        THEN 2 * x1 * (y2 - y1) + (x2 - x1) * (ray_y2 - 2 * y1) > ray_x2 * (y2 - y1)
        ELSE 2 * x1 * (y2 - y1) + (x2 - x1) * (ray_y2 - 2 * y1) < ray_x2 * (y2 - y1)

\* mutant of border_lines_to_tile_positions: the ray starts left of the
\* grid instead of at the centre of the cell
border_lines_to_tile_positions_from_edge(border_lines) ==
  IF Len(border_lines) = 0 THEN << >>
  ELSE LET crossings(x, y) ==
             Cardinality({ i \in DOMAIN border_lines :
                             ray_crosses(-1, y, border_lines[i].start_pos,
                                         border_lines[i].end_pos) })
           cells == [k \in 1..(GRID_SIZE * GRID_SIZE) |-> Cell(k - 1)]
       IN SelectSeq(cells, LAMBDA c : crossings(c[1], c[2]) % 2 = 1)

\* GameUI.border_lines_to_tile_positions: the cells, row by row, from whose
\* centre the ray crosses an odd number of the segments
border_lines_to_tile_positions(border_lines) ==
  IF Len(border_lines) = 0 THEN << >>
  ELSE LET crossings(x, y) ==
             Cardinality({ i \in DOMAIN border_lines :
                             ray_crosses(x, y, border_lines[i].start_pos,
                                         border_lines[i].end_pos) })
           cells == [k \in 1..(GRID_SIZE * GRID_SIZE) |-> Cell(k - 1)]
       IN SelectSeq(cells, LAMBDA c : crossings(c[1], c[2]) % 2 = 1)

\* the caller converts the border lines of the island just created back
\* into cells (game_ui.py complete_border_turn, line 731)
ConvertBorderLines ==
  /\ outcome.op = "make_turn"
  /\ outcome.result = "ok"
  /\ Len(heap[current].islands) > 0
  /\ outcome' = Call("border_lines_to_tile_positions", current, dummy_position,
                     Some(border_lines_to_tile_positions(
                            heap[current].islands[Len(heap[current].islands)].border_lines)),
                     "ok", current)
  /\ UNCHANGED << heap, current, tile_type_pool, tile_type_pool_index, current_choices,
                  seed, deviations, frame >>

RegionNext == SubmitRegion \/ ConvertBorderLines

RegionSpec == RegionInit /\ [][RegionNext]_vars

\* ================================================================ claims
\* the state a make_turn call recorded in `outcome` was applied to
InputState == heap[outcome.save_state]
MakeTurnCalled == outcome.op = "make_turn"
Accepted == outcome.result = "ok"
GameEndedError == outcome.result = "ValueError: Cannot make turn: game has ended"

\* the turns before the current one whose scheduled action is `action`
CompletedTurns(s, action) ==
  Cardinality({ t \in 1..(s.current_turn - 1) :
                  t <= Len(TURN_ACTIONS) /\ TURN_ACTIONS[t] = action })

\* C1: in every reachable state, decide_end is true exactly when
\* current_turn > 30.
C1_EndedIffTurnAbove30 ==
  \A r \in DOMAIN heap : decide_end(heap[r]) <=> heap[r].current_turn > 30

\* C2: the phase follows 3 cycles of 9 placement turns and 1 border turn:
\* turns 10, 20 and 30 are border turns, every other turn in 1..30 is a
\* placement turn.
C2_BorderTurnsAre10_20_30 ==
  \A r \in DOMAIN heap :
    heap[r].current_turn \in 1..30 =>
      phase(heap[r]) = IF heap[r].current_turn \in { 10, 20, 30 } THEN "border" ELSE "choice"

\* C3: from a fresh game 30 consecutive valid turns are all accepted, the
\* game has ended exactly after the 30th, and a 31st turn fails with the
\* game-has-ended error.
C3_ThirtyTurnsThenEnded ==
  /\ \A r \in DOMAIN heap : decide_end(heap[r]) => heap[r].current_turn = 31
  /\ MakeTurnCalled /\ InputState.current_turn <= 30 => ~GameEndedError
  /\ MakeTurnCalled /\ InputState.current_turn > 30 => GameEndedError

\* C4: a successful make_turn returns a new state whose current_turn is the
\* input's plus 1, and no call ever changes a state object that already
\* exists: neither the input of the call nor any older snapshot.
C4_NewStateInputUntouched ==
  [][ /\ \A r \in DOMAIN heap \cap DOMAIN heap' : heap'[r] = heap[r]
      /\ outcome'.op = "make_turn" /\ outcome'.result = "ok" =>
           /\ outcome'.save_state = current
           /\ outcome'.ret = current'
           /\ current' \notin DOMAIN heap
           /\ heap'[current'].current_turn = heap[current].current_turn + 1 ]_vars

\* C4 witness: the whole game has been played and the caller still holds
\* the first snapshot and the input of the last turn
C4_Witness ==
  /\ MakeTurnCalled /\ Accepted
  /\ Cardinality(DOMAIN heap) = 3
  /\ heap[1].current_turn = 1 /\ heap[1].choice_history = << >>
  /\ InputState.current_turn = Len(TURN_ACTIONS)
  /\ heap[current].current_turn = Len(TURN_ACTIONS) + 1

\* C5: in every reachable state the length of choice_history is
\* current_turn - 1.
C5_HistoryLength ==
  \A r \in DOMAIN heap : Len(heap[r].choice_history) = heap[r].current_turn - 1

\* C5 witness: a state after placement turns and a border turn
C5_Witness ==
  /\ MakeTurnCalled /\ Accepted
  /\ heap[current].current_turn = 12
  /\ Len(heap[current].choice_history) = 11

\* C6: in every reachable state the number of placed tiles is the number of
\* completed turns whose scheduled phase is placement; border turns add none.
C6_OneTilePerPlacementTurn ==
  \A r \in DOMAIN heap : Len(heap[r].placed_tiles) = CompletedTurns(heap[r], "choice")

\* C6 witness: a border turn has just been accepted after 9 placements
C6_Witness ==
  /\ MakeTurnCalled /\ Accepted
  /\ phase(InputState) = "border"
  /\ heap[current].current_turn = 11
  /\ Len(heap[current].placed_tiles) = 9

\* C7: a placement turn onto a cell that already holds a tile fails and
\* leaves the state unchanged, so no two placed tiles share a position.
C7_OccupiedCellRejected ==
  /\ MakeTurnCalled /\ phase(InputState) = "choice"
       /\ (\E i \in DOMAIN InputState.placed_tiles :
             InputState.placed_tiles[i].tile_position = outcome.tile_position)
     => ~Accepted /\ current = outcome.save_state
  /\ \A r \in DOMAIN heap : \A i, j \in DOMAIN heap[r].placed_tiles :
       i # j => heap[r].placed_tiles[i].tile_position # heap[r].placed_tiles[j].tile_position

\* C8: submitting a border region while the phase is placement fails: no
\* tile is placed, no island is created, current_turn does not advance.
C8_BorderOnPlacementRejected ==
  MakeTurnCalled /\ phase(InputState) = "choice" /\ Truthy(outcome.border_tiles)
    => ~Accepted /\ current = outcome.save_state

\* C9: on a border turn the turn advances only when a candidate region that
\* passes validation is submitted; an empty or missing region is rejected.
C9_BorderTurnNeedsValidRegion ==
  MakeTurnCalled /\ phase(InputState) = "border" /\ Accepted
    => Truthy(outcome.border_tiles) /\ _validate_border_tiles(outcome.border_tiles.list)

\* C10: in every reachable state the number of islands is the number of
\* completed border turns.
C10_OneIslandPerBorderTurn ==
  \A r \in DOMAIN heap : Len(heap[r].islands) = CompletedTurns(heap[r], "border")

\* C11: a call of make_turn or decide_action that fails (game ended, invalid
\* border region, pool exhausted) leaves the state it was given and the
\* runner's pool cursor exactly as they were before the call.
C11_FailedCallChangesNothing ==
  [][ outcome'.result # "ok" =>
        /\ outcome'.save_state = current
        /\ current' = current
        /\ current \in DOMAIN heap' /\ heap'[current] = heap[current]
        /\ tile_type_pool_index' = tile_type_pool_index
        /\ tile_type_pool' = tile_type_pool ]_vars

\* C11 witness: the pool ran out because choices were asked for twice in
\* one turn; decide_action has failed on the last placement turn
C11_Witness ==
  /\ outcome.op = "decide_action"
  /\ outcome.result = "ValueError: Not enough tile types left in the pool"
  /\ tile_type_pool_index = Len(tile_type_pool)
  /\ phase(heap[current]) = "choice"
  /\ current_choices.is_none

\* list a is a prefix of list b
IsPrefix(a, b) == Len(a) <= Len(b) /\ \A i \in 1..Len(a) : b[i] = a[i]

\* C12: across every successful turn the previous state's choice_history,
\* placed_tiles, border_lines and islands are each a prefix of the new
\* state's list: entries are appended, never removed, reordered or changed.
C12_ListsOnlyGrow ==
  [][ outcome'.op = "make_turn" /\ outcome'.result = "ok" =>
        /\ IsPrefix(heap[current].choice_history, heap'[current'].choice_history)
        /\ IsPrefix(heap[current].placed_tiles, heap'[current'].placed_tiles)
        /\ IsPrefix(heap[current].border_lines, heap'[current'].border_lines)
        /\ IsPrefix(heap[current].islands, heap'[current'].islands) ]_vars

\* C12 witness: a second island has just been added to a state that held
\* an island, its border lines, tiles and history
C12_Witness ==
  /\ MakeTurnCalled /\ Accepted
  /\ Len(InputState.islands) = 1 /\ Len(heap[current].islands) = 2
  /\ Len(InputState.border_lines) > 0
  /\ Len(heap[current].border_lines) > Len(InputState.border_lines)
  /\ Len(InputState.placed_tiles) = 18
  /\ Len(heap[current].choice_history) = Len(InputState.choice_history) + 1

\* ---- scoring claims (ScoreSpec)
PointsAsked == outcome.op = "calculate_points"

\* C13: calculate_points returns 0 for every state in which the game has not
\* ended, whatever tiles and islands the state contains.
C13_NoPointsBeforeEnd ==
  PointsAsked /\ ~decide_end(InputState) => outcome.ret = 0

\* C13 witness: the score of a game that has not ended was asked for, and
\* its tiles and island would score were the game over
C13_Witness ==
  /\ PointsAsked /\ ~decide_end(InputState) /\ outcome.ret = 0
  /\ Len(InputState.placed_tiles) >= 2 /\ Len(InputState.islands) >= 1
  /\ calculate_points([InputState EXCEPT !.current_turn = Len(TURN_ACTIONS) + 1]) > 0

\* the cell lies inside some island's enclosed cells
InsideSomeIsland(cell, s) ==
  cell \in UNION { s.islands[i].enclosed_positions : i \in DOMAIN s.islands }

\* the wrong zone of a tile, by type
InWrongZone(tile, s) ==
  \/ tile.choice.tile_type \in { "ships", "waves" } /\ InsideSomeIsland(tile.tile_position, s)
  \/ tile.choice.tile_type \in { "houses", "churches", "forest", "mountain" }
       /\ ~InsideSomeIsland(tile.tile_position, s)
  \/ tile.choice.tile_type = "beach" /\ InsideSomeIsland(tile.tile_position, s)

\* C14: for an ended game the final score is the sum of the per-tile scores
\* of all placed tiles minus 5 for each tile in the wrong zone: ships or
\* waves inside an island, houses, churches, forest or mountain outside
\* every island, beach inside an island.
C14_FinalScore ==
  PointsAsked /\ decide_end(InputState) =>
    outcome.ret =
      Sum([i \in DOMAIN InputState.placed_tiles |->
             _calculate_tile_points(InputState.placed_tiles[i], InputState)])
      - 5 * Cardinality({ i \in DOMAIN InputState.placed_tiles :
                            InWrongZone(InputState.placed_tiles[i], InputState) })

\* C14 witness: the score of an ended game with a beach on an island, a
\* house in the sea and a tile in its right zone that scores
C14_Witness ==
  /\ PointsAsked /\ decide_end(InputState)
  /\ \E i, j, k \in DOMAIN InputState.placed_tiles :
       /\ InputState.placed_tiles[i].choice.tile_type = "beach"
       /\ InWrongZone(InputState.placed_tiles[i], InputState)
       /\ InputState.placed_tiles[j].choice.tile_type = "houses"
       /\ InWrongZone(InputState.placed_tiles[j], InputState)
       /\ ~InWrongZone(InputState.placed_tiles[k], InputState)
       /\ _calculate_tile_points(InputState.placed_tiles[k], InputState) > 0

\* the score of an ended game has been asked for
Scored == PointsAsked /\ decide_end(InputState)

\* no two tiles of the state share a cell
OneTilePerCell(s) ==
  \A i, j \in DOMAIN s.placed_tiles :
    i # j => s.placed_tiles[i].tile_position # s.placed_tiles[j].tile_position

\* the tiles of the state of the given type, by index in placed_tiles
TilesOfType(s, tile_type) ==
  { i \in DOMAIN s.placed_tiles : s.placed_tiles[i].choice.tile_type = tile_type }

\* the set S of forest tiles and the forest tiles 4-connected to them
RECURSIVE ForestGroupFrom(_, _)
ForestGroupFrom(s, S) ==
  LET more == { j \in TilesOfType(s, "forest") :
                  \E i \in S : distance(s.placed_tiles[i].tile_position,
                                        s.placed_tiles[j].tile_position) = 1 }
  IN IF more \subseteq S THEN S ELSE ForestGroupFrom(s, S \cup more)

\* the rule of C15 for the forest tiles of state s
ForestRule(s) ==
  \A i \in TilesOfType(s, "forest") :
    LET group == ForestGroupFrom(s, { i })
        n == Cardinality(group)
        points(j) == _calculate_forest_points(s.placed_tiles[j].tile_position, s)
        before(j) == Cardinality({ k \in group :
                        tuple_less(s.placed_tiles[k].tile_position, s.placed_tiles[j].tile_position) })
    IN IF n = 1 THEN points(i) = 0
       ELSE /\ Sum([k \in 1..Len(s.placed_tiles) |-> IF k \in group THEN points(k) ELSE 0])
                 = 2 * (n - 1)
            /\ \A j \in group :
                 points(j) = ((2 * (n - 1)) \div n)
                             + (IF before(j) < (2 * (n - 1)) % n THEN 1 ELSE 0)

\* C15: for every maximal 4-connected group of n forest tiles: a single tile
\* scores 0; for n > 1 the members' scores sum to 2*(n-1), each member scores
\* floor(2*(n-1)/n) or one more, and the extra points go to the first
\* (2*(n-1) mod n) members in lexicographic order of position.
C15_ForestGroupSplit == Scored => ForestRule(InputState)

\* the rule of C15 does hold on every board with at most one tile per cell
ForestRuleOnePerCell == Scored /\ OneTilePerCell(InputState) => ForestRule(InputState)

\* the grid cells other than cell p that hold a ship other than tile i or
\* lie inside an island, occupied or empty
ShipReferenceCells(s, i, p) ==
  { q \in (0..(GRID_SIZE - 1)) \X (0..(GRID_SIZE - 1)) :
      /\ q # p
      /\ \/ \E j \in TilesOfType(s, "ships") \ { i } : s.placed_tiles[j].tile_position = q
         \/ InsideSomeIsland(q, s) }

\* C16: a ship whose cell is inside any island scores 0; otherwise it scores
\* the minimum Manhattan distance from its cell to any other grid cell that
\* holds another ship or lies inside any island, and 0 when there is none.
C16_ShipDistance ==
  Scored =>
    \A i \in TilesOfType(InputState, "ships") :
      LET p == InputState.placed_tiles[i].tile_position
          cells == ShipReferenceCells(InputState, i, p)
      IN _calculate_ship_points(p, InputState) =
           IF InsideSomeIsland(p, InputState) \/ cells = {} THEN 0
           ELSE SetMin({ distance(p, q) : q \in cells })

\* C16 witness: a ship at sea scores 3, its distance to the nearest island
\* cell, an empty one; another ship, farther off and on the island, scores 0
C16_Witness ==
  /\ Scored
  /\ \E i, j \in TilesOfType(InputState, "ships") :
       /\ ~InsideSomeIsland(InputState.placed_tiles[i].tile_position, InputState)
       /\ _calculate_ship_points(InputState.placed_tiles[i].tile_position, InputState) = 3
       /\ InsideSomeIsland(InputState.placed_tiles[j].tile_position, InputState)
       /\ distance(InputState.placed_tiles[i].tile_position,
                   InputState.placed_tiles[j].tile_position) > 3
       /\ _calculate_ship_points(InputState.placed_tiles[j].tile_position, InputState) = 0

\* the rule of C17 for the churches of state s
ChurchRule(s) ==
  \A i \in TilesOfType(s, "churches") :
    LET p == s.placed_tiles[i].tile_position
        neighbours == ToSet(_get_nearby_positions(p))
        same_island(q) == \E k \in DOMAIN s.islands :
                             p \in s.islands[k].enclosed_positions
                             /\ q \in s.islands[k].enclosed_positions
        other_church == \E j \in TilesOfType(s, "churches") \ { i } :
                           same_island(s.placed_tiles[j].tile_position)
        near_houses == { j \in TilesOfType(s, "houses") :
                           s.placed_tiles[j].tile_position \in neighbours }
        far_houses == { j \in TilesOfType(s, "houses") :
                          /\ s.placed_tiles[j].tile_position \notin neighbours
                          /\ same_island(s.placed_tiles[j].tile_position) }
    IN _calculate_church_points(p, s) =
         IF other_church THEN 0
         ELSE 2 * Cardinality(near_houses) + Cardinality(far_houses)

\* C17: a church scores 0 if another church lies on the same island;
\* otherwise it scores 2 for each house among its 8 neighbours plus 1 for
\* each house on the same island that is not among those neighbours.
C17_ChurchHouses == Scored => ChurchRule(InputState)

\* the rule of C17 does hold on every board with at most one tile per cell
ChurchRuleOnePerCell == Scored /\ OneTilePerCell(InputState) => ChurchRule(InputState)

\* the rule of C18 for the wave tiles of state s
WaveRule(s) ==
  \A i \in TilesOfType(s, "waves") :
    LET p == s.placed_tiles[i].tile_position
        in_row_or_column == \E j \in TilesOfType(s, "waves") \ { i } :
                               \/ s.placed_tiles[j].tile_position[1] = p[1]
                               \/ s.placed_tiles[j].tile_position[2] = p[2]
        next_to == \E j \in TilesOfType(s, "waves") :
                      s.placed_tiles[j].tile_position \in ToSet(_get_nearby_positions(p))
    IN _calculate_wave_points(p, s) = IF ~in_row_or_column /\ ~next_to THEN 2 ELSE 0

\* C18: a wave tile scores 2 if no other wave tile is in its row or column
\* and no wave tile occupies any of its 8 neighbouring cells; otherwise it
\* scores 0.
C18_WaveAlone == Scored => WaveRule(InputState)

\* the rule of C18 does hold on every board with at most one tile per cell
WaveRuleOnePerCell == Scored /\ OneTilePerCell(InputState) => WaveRule(InputState)

\* the rule of C19 for the houses of state s
HouseRule(s) ==
  \A i \in TilesOfType(s, "houses") :
    LET p == s.placed_tiles[i].tile_position
        types == { s.placed_tiles[j].choice.tile_type : j \in
                     { k \in DOMAIN s.placed_tiles :
                         s.placed_tiles[k].tile_position \in ToSet(_get_nearby_positions(p)) } }
    IN _calculate_house_points(p, s) = Cardinality(types \ { "houses" })

\* C19: a house scores the number of distinct tile types other than houses
\* found among the tiles in its 8 neighbouring cells; several neighbours of
\* the same type count once.
C19_HouseVariety == Scored => HouseRule(InputState)

\* the rule of C19 does hold on every board with at most one tile per cell
HouseRuleOnePerCell == Scored /\ OneTilePerCell(InputState) => HouseRule(InputState)

\* ---- pool claims (PoolSpec)
\* the number of entries of the pool of the given type
PoolCount(tile_type) ==
  Cardinality({ k \in DOMAIN tile_type_pool : tile_type_pool[k] = tile_type })

PoolReturned == outcome.op = "create_new_game"

\* C20: for every outcome of the random source generate_bounded_tile_pool
\* terminates and returns exactly 52 entries in which each type's count lies
\* within its bounds: beach 8..9, churches 4..6, forest 11..13, houses
\* 8..11, mountain 3..5, ships exactly 3, waves 8..10.
C20_PoolWithinBounds ==
  /\ <>PoolReturned
  /\ [](PoolReturned =>
          /\ Len(tile_type_pool) = 52
          /\ \A k \in DOMAIN tile_type_pool : tile_type_pool[k] \in ToSet(TILE_TYPES)
          /\ PoolCount("beach") \in 8..9
          /\ PoolCount("churches") \in 4..6
          /\ PoolCount("forest") \in 11..13
          /\ PoolCount("houses") \in 8..11
          /\ PoolCount("mountain") \in 3..5
          /\ PoolCount("ships") = 3
          /\ PoolCount("waves") \in 8..10)

\* C20 witness: a pool has been returned after a second round of the while
\* loop gave the last entry to forest
C20_Witness ==
  /\ PoolReturned
  /\ PoolCount("forest") = 13
  /\ PoolCount("beach") = 9
  /\ PoolCount("ships") = 3

\* ---- C21
\* a step in which the caller calls decide_action
DecideActionCalled == outcome'.op = "decide_action"
PoolExhaustedError == "ValueError: Not enough tile types left in the pool"

\* C21 as stated: decide_action returns the empty list and leaves the pool
\* cursor alone when the game has ended or the turn is a border turn, and on
\* every placement turn it returns exactly 2 choices and moves the cursor
\* forward by exactly 2.
C21_TwoChoicesEveryPlacementTurn ==
  [][DecideActionCalled =>
       IF decide_end(heap[current]) \/ phase(heap[current]) = "border"
       THEN /\ outcome'.result = "ok"
            /\ current_choices' = Some(<< >>)
            /\ tile_type_pool_index' = tile_type_pool_index
       ELSE /\ outcome'.result = "ok"
            /\ Len(current_choices'.list) = 2
            /\ tile_type_pool_index' = tile_type_pool_index + 2]_vars

\* C21 amended: decide_action returns the empty list and leaves the pool
\* cursor alone when the game has ended or the turn is a border turn; on a
\* placement turn with at least 2 pool entries left it returns exactly 2
\* choices and moves the cursor forward by exactly 2, and with fewer left it
\* fails with the pool-exhausted error and leaves the cursor alone.
C21_TwoChoicesWhilePoolLasts ==
  [][DecideActionCalled =>
       IF decide_end(heap[current]) \/ phase(heap[current]) = "border"
       THEN /\ outcome'.result = "ok"
            /\ current_choices' = Some(<< >>)
            /\ tile_type_pool_index' = tile_type_pool_index
       ELSE IF tile_type_pool_index + 2 <= Len(tile_type_pool)
       THEN /\ outcome'.result = "ok"
            /\ Len(current_choices'.list) = 2
            /\ tile_type_pool_index' = tile_type_pool_index + 2
       ELSE /\ outcome'.result = PoolExhaustedError
            /\ tile_type_pool_index' = tile_type_pool_index]_vars

\* decide_action has failed on a placement turn for lack of pool entries,
\* after the draws of the turns before
C21_Witness ==
  /\ outcome.op = "decide_action"
  /\ outcome.result = PoolExhaustedError
  /\ phase(heap[current]) = "choice"
  /\ tile_type_pool_index = TOTAL

\* ---- C22
\* C22: in a game played from create_new_game in which the caller asks for
\* choices exactly once on each placement turn (it never departs from the
\* baseline play), no call fails for lack of pool entries, up to and
\* including the last turn.
C22_PoolLastsTheGame ==
  deviations = 0 => outcome.result # PoolExhaustedError

\* such a game has reached its end, its 26 placement turns having drawn
\* all 52 entries of the pool
C22_Witness ==
  /\ deviations = 0
  /\ decide_end(heap[current])
  /\ Len(heap[current].placed_tiles) * 2 = TOTAL
  /\ tile_type_pool_index = Len(tile_type_pool)

\* ---- C23
\* C23: the two choices generate_choice returns differ in tile type, chunk
\* type or chunk position, also when all 100 attempts of the retry loop
\* collided and the forced second choice was appended, and both have a
\* chunk position in 1..9.
C23_ChoicesDiffer ==
  (outcome.op = "generate_choice" /\ outcome.result = "ok") =>
     LET choices == current_choices.list
     IN /\ Len(choices) = 2
        /\ \/ choices[1].tile_type # choices[2].tile_type
           \/ choices[1].chunk_type # choices[2].chunk_type
           \/ choices[1].chunk_position # choices[2].chunk_position
        /\ \A i \in 1..2 : choices[i].chunk_position \in 1..9

\* all 100 attempts collided with a first choice at chunk position 9 and
\* the forced second choice was returned
C23_Witness ==
  /\ outcome.op = "generate_choice"
  /\ outcome.result = "ok"
  /\ outcome.ret = 1
  /\ current_choices.list[1].chunk_position = 9

\* ---- C24
\* C24: for every state the program reaches, the state rebuilt by
\* SaveState.from_dict from the state's to_dict equals it in every field:
\* turn number, history, id, creation time, placed tiles, border lines and
\* islands, with their enclosed cells and lake flags.
C24_RoundTrip ==
  outcome.op = "from_dict" =>
     LET s == heap[outcome.save_state]
         t == heap[outcome.ret]
     IN /\ t.current_turn = s.current_turn
        /\ t.choice_history = s.choice_history
        /\ t.game_id = s.game_id
        /\ t.created_at = s.created_at
        /\ t.placed_tiles = s.placed_tiles
        /\ t.border_lines = s.border_lines
        /\ Len(t.islands) = Len(s.islands)
        /\ \A i \in DOMAIN s.islands :
              /\ t.islands[i].border_lines = s.islands[i].border_lines
              /\ t.islands[i].enclosed_positions = s.islands[i].enclosed_positions
              /\ t.islands[i].is_lake = s.islands[i].is_lake

\* a state with tiles, a history and two islands was converted and rebuilt
C24_Witness ==
  /\ outcome.op = "from_dict"
  /\ Len(heap[outcome.save_state].placed_tiles) >= 2
  /\ Len(heap[outcome.save_state].choice_history) >= 3
  /\ Len(heap[outcome.save_state].islands) = 2
  /\ outcome.ret # outcome.save_state

\* ---- C25
\* a make_turn call on a border turn that submitted the region
Submitted(region) ==
  /\ MakeTurnCalled
  /\ phase(InputState) = "border"
  /\ outcome.border_tiles = Some(region)
\* the island a make_turn call that was accepted has appended
NewIsland == heap[outcome.ret].islands[Len(heap[outcome.ret].islands)]

C26_RingAccepted ==
  Submitted(Ring) =>
     /\ _validate_border_tiles(Ring)
     /\ Accepted
     /\ heap[outcome.ret].current_turn = InputState.current_turn + 1

\* ---- C27
\* the cells next to a cell, on the grid or off it
Orthogonal(cell) ==
  { << cell[1] - 1, cell[2] >>, << cell[1] + 1, cell[2] >>,
    << cell[1], cell[2] - 1 >>, << cell[1], cell[2] + 1 >> }
\* the region has a cell that is no member while its 4 orthogonal
\* neighbours all are
HasHoleCell(region) ==
  \E member \in ToSet(region) :
     LET cell == << member[1] + 1, member[2] >>
     IN cell \notin ToSet(region) /\ Orthogonal(cell) \subseteq ToSet(region)
\* a step in which make_turn is called on a border turn with a region
BorderSubmitted ==
  /\ outcome'.op = "make_turn"
  /\ phase(heap[current]) = "border"
  /\ Truthy(outcome'.border_tiles)

RECURSIVE ReachableFrom(_, _)
ReachableFrom(cells, region) ==
  LET more == cells \cup { c \in ToSet(region) : Orthogonal(c) \cap cells # {} }
  IN IF more = cells THEN cells ELSE ReachableFrom(more, region)
\* every cell of the region can reach every other cell
FourConnected(region) ==
  \A c \in ToSet(region) : ReachableFrom({ c }, region) = ToSet(region)

\* C28: border validation accepts a region only if every cell of it can
\* reach every other through 4-adjacent cells of the region; a region that
\* falls into two or more 4-connected parts is refused, by the validation
\* and by the border turn.
C28_OnlyConnectedAccepted ==
  (MakeTurnCalled /\ phase(InputState) = "border" /\ Truthy(outcome.border_tiles)) =>
     LET region == outcome.border_tiles.list
     IN /\ _validate_border_tiles(region) => FourConnected(region)
        /\ Accepted => FourConnected(region)
        /\ ~FourConnected(region) => outcome.result = "ValueError: Invalid border tiles"

\* a region of two parts, without hole and with a short border, was
\* submitted on a border turn and refused
C28_Witness ==
  /\ Submitted(TwoParts)
  /\ ~FourConnected(TwoParts)
  /\ _is_area_enclosed(TwoParts)
  /\ _calculate_border_length(TwoParts) <= MAX_BORDER_LINES
  /\ outcome.result = "ValueError: Invalid border tiles"

\* ---- C29
\* the unit edges that separate a member cell of the region from a
\* neighbour that is no member, each named by the two cells it separates
Perimeter(region) ==
  Cardinality({ edge \in ToSet(region) \X UNION { Orthogonal(c) : c \in ToSet(region) } :
                  edge[2] \in Orthogonal(edge[1]) /\ edge[2] \notin ToSet(region) })

\* C29: the border length computed for a submitted region is the number of
\* distinct unit edges between a member cell and a non-member neighbour,
\* and a region is accepted only if that number is at most 24.
C29_BorderLengthIsPerimeter ==
  (MakeTurnCalled /\ phase(InputState) = "border" /\ Truthy(outcome.border_tiles)) =>
     LET region == outcome.border_tiles.list
     IN /\ _calculate_border_length(region) = Perimeter(region)
        /\ Accepted => Perimeter(region) <= MAX_BORDER_LINES

\* ---- C30
\* a border turn was made with a region and appended an island
IslandCreated ==
  /\ MakeTurnCalled
  /\ phase(InputState) = "border"
  /\ Truthy(outcome.border_tiles)
  /\ Accepted

C31_IslandsDisjoint ==
  \A r \in DOMAIN heap :
     \A i, j \in DOMAIN heap[r].islands :
        (i # j /\ ~heap[r].islands[i].is_lake /\ ~heap[r].islands[j].is_lake) =>
           heap[r].islands[i].enclosed_positions \cap heap[r].islands[j].enclosed_positions = {}

\* ---- C32
\* the cells of the region's bounding box widened by one cell on each side
WideBox(region) ==
  LET xs == { p[1] : p \in ToSet(region) }
      ys == { p[2] : p \in ToSet(region) }
  IN ((SetMin(xs) - 1)..(SetMax(xs) + 1)) \X ((SetMin(ys) - 1)..(SetMax(ys) + 1))
\* the cells just outside the bounding box
OutsideBox(region) ==
  LET xs == { p[1] : p \in ToSet(region) }
      ys == { p[2] : p \in ToSet(region) }
  IN { c \in WideBox(region) : c[1] \notin SetMin(xs)..SetMax(xs) \/ c[2] \notin SetMin(ys)..SetMax(ys) }
\* the non-member cells that can be reached from `cells` through
\* 4-adjacent non-member cells
RECURSIVE OpenFrom(_, _)
OpenFrom(cells, region) ==
  LET more == cells \cup { c \in WideBox(region) \ ToSet(region) : Orthogonal(c) \cap cells # {} }
  IN IF more = cells THEN cells ELSE OpenFrom(more, region)
\* every non-member cell reaches the outside of the bounding box
HoleFree(region) ==
  WideBox(region) \ ToSet(region) \subseteq OpenFrom(OutsideBox(region), region)

\* C32: every region border validation accepts is free of holes of any
\* size: each cell that is no member reaches the outside of the region's
\* bounding box through 4-adjacent cells that are no members.
C32_NoHoleOfAnySize ==
  (MakeTurnCalled /\ phase(InputState) = "border" /\ Truthy(outcome.border_tiles)) =>
     LET region == outcome.border_tiles.list
     IN /\ _validate_border_tiles(region) => HoleFree(region)
        /\ Accepted => HoleFree(region)

\* ---- C33
\* the grid vertices at the corners of a cell
Corners(cell) ==
  { << cell[1], cell[2] >>, << cell[1] + 1, cell[2] >>,
    << cell[1], cell[2] + 1 >>, << cell[1] + 1, cell[2] + 1 >> }
\* the sides of member cells that face a cell that is no member, each as
\* the pair of the member and the cell it faces
OuterSides(region) ==
  { side \in ToSet(region) \X UNION { Orthogonal(c) : c \in ToSet(region) } :
      side[2] \in Orthogonal(side[1]) /\ side[2] \notin ToSet(region) }
\* the two vertices a border line joins
EndPoints(line) == { line.start_pos, line.end_pos }

\* C33: for an accepted region, the border lines stored for the new island
\* (the result of _tiles_to_border_lines) hold exactly one line for each
\* side of a member cell that faces a non-member, joining the two vertices
\* of that side, and no edge twice.
C33_OneLinePerOuterSide ==
  IslandCreated =>
     LET region == outcome.border_tiles.list
         lines == NewIsland.border_lines
     IN /\ lines = _tiles_to_border_lines(region)
        /\ \A side \in OuterSides(region) :
              Cardinality({ i \in DOMAIN lines :
                              EndPoints(lines[i]) = Corners(side[1]) \cap Corners(side[2]) }) = 1
        /\ \A i \in DOMAIN lines :
              \E side \in OuterSides(region) :
                 EndPoints(lines[i]) = Corners(side[1]) \cap Corners(side[2])
        /\ \A i, j \in DOMAIN lines : i # j => EndPoints(lines[i]) # EndPoints(lines[j])
        /\ Len(lines) = Cardinality(OuterSides(region))

\* an island was created from a region one cell wide somewhere, which has
\* more outer sides than the border length computed for it
C33_Witness ==
  /\ IslandCreated
  /\ Cardinality(NewIsland.enclosed_positions) >= 5
  /\ Len(NewIsland.border_lines) = Perimeter(outcome.border_tiles.list)
  /\ Len(NewIsland.border_lines) > _calculate_border_length(outcome.border_tiles.list)

\* ---- C34
\* C34: each border line stored for a new island is flagged vertical
\* (is_horizontal false) when the non-member cell it separates from the
\* member is offset horizontally (same row), and horizontal (is_horizontal
\* true) when that cell is offset vertically (same column).
C34_OrientationFlag ==
  IslandCreated =>
     LET region == outcome.border_tiles.list
         lines == NewIsland.border_lines
     IN \A i \in DOMAIN lines : \A side \in OuterSides(region) :
           EndPoints(lines[i]) = Corners(side[1]) \cap Corners(side[2]) =>
              /\ side[2][2] = side[1][2] => ~lines[i].is_horizontal
              /\ side[2][1] = side[1][1] => lines[i].is_horizontal

\* ---- C35
\* C35: in every state the caller holds, each island has at most
\* MAX_BORDER_LINES (24) border lines.
C35_IslandEdgesBounded ==
  \A r \in DOMAIN heap :
     \A i \in DOMAIN heap[r].islands :
        Len(heap[r].islands[i].border_lines) <= MAX_BORDER_LINES

\* the bound does hold for the islands whose computed border length is
\* their perimeter
IslandEdgesBoundedWhenCounted ==
  (IslandCreated /\ _calculate_border_length(outcome.border_tiles.list)
                      = Perimeter(outcome.border_tiles.list)) =>
     Len(NewIsland.border_lines) <= MAX_BORDER_LINES

\* ---- C36
\* the border lines of the islands, one island after the other
RECURSIVE IslandLines(_)
IslandLines(islands) ==
  IF Len(islands) = 0 THEN << >>
  ELSE IslandLines(SubSeq(islands, 1, Len(islands) - 1)) \o islands[Len(islands)].border_lines
\* the history entries that recorded border lines
HasLines(turn_history) == Len(turn_history.border_lines) > 0

\* C36: in every state of a game played from create_new_game, border_lines
\* is the concatenation, in creation order, of the border lines of all
\* islands, and the lines recorded in the history entry of a border turn
\* are those of the island created in that turn (none when the turn
\* created no island, and none on a placement turn).
C36_LinesOfIslands ==
  \A r \in DOMAIN heap :
     LET s == heap[r]
         drawn == SelectSeq(s.choice_history, HasLines)
     IN /\ s.border_lines = IslandLines(s.islands)
        /\ Len(drawn) = Len(s.islands)
        /\ \A i \in DOMAIN drawn : drawn[i].border_lines = s.islands[i].border_lines
        /\ \A t \in DOMAIN s.choice_history :
              HasLines(s.choice_history[t]) => TURN_ACTIONS[t] = "border"

\* a state with three islands, drawn on the three border turns
C36_Witness ==
  /\ Len(heap[current].islands) = 3
  /\ Len(heap[current].border_lines) > Len(heap[current].islands[1].border_lines)
  /\ HasLines(heap[current].choice_history[10])
  /\ HasLines(heap[current].choice_history[20])

\* ---- C37
\* a step in which decide_action returned choices
ChoicesOffered ==
  /\ DecideActionCalled
  /\ outcome'.result = "ok"
  /\ Len(current_choices'.list) > 0

\* C37: pool entries are drawn in pool order, each at most once.  The pool
\* is not changed, its cursor never decreases and never exceeds 52, it
\* moves only in a decide_action call that returns choices, then by 2, and
\* the two choices returned have the tile types of the two entries the
\* cursor passes; so the k-th such call offers the entries 2k-2 and 2k-1
\* (counted from 0).
C37_DrawnInPoolOrder ==
  [][/\ tile_type_pool' = tile_type_pool
     /\ tile_type_pool_index' >= tile_type_pool_index
     /\ tile_type_pool_index' <= TOTAL
     /\ tile_type_pool_index' # tile_type_pool_index => ChoicesOffered
     /\ ChoicesOffered =>
          /\ tile_type_pool_index' = tile_type_pool_index + 2
          /\ Len(current_choices'.list) = 2
          /\ current_choices'.list[1].tile_type = tile_type_pool[tile_type_pool_index + 1]
          /\ current_choices'.list[2].tile_type = tile_type_pool[tile_type_pool_index + 2]]_vars

\* the 26th call that returned choices has offered the last two entries,
\* which are of different types
C37_Witness ==
  /\ outcome.op = "decide_action"
  /\ outcome.result = "ok"
  /\ tile_type_pool_index = TOTAL
  /\ Len(heap[current].placed_tiles) = 25
  /\ ~current_choices.is_none
  /\ Len(current_choices.list) = 2
  /\ current_choices.list[1].tile_type = tile_type_pool[TOTAL - 1]
  /\ current_choices.list[2].tile_type = tile_type_pool[TOTAL]
  /\ tile_type_pool[TOTAL - 1] # tile_type_pool[TOTAL]

\* ---- C38
\* the border lines of an island were converted back into cells
Converted == outcome.op = "border_lines_to_tile_positions"
\* the island whose lines were converted
ConvertedIsland == heap[outcome.save_state].islands[Len(heap[outcome.save_state].islands)]

\* C38: for a connected region without holes inside the 9x9 grid, the
\* cells border_lines_to_tile_positions finds enclosed by the lines
\* _tiles_to_border_lines derived from the region are exactly the cells of
\* the region, each once.
C38_LinesBackToCells ==
  Converted =>
     LET cells == ConvertedIsland.enclosed_positions
         region == list(cells)
         found == outcome.border_tiles.list
     IN (FourConnected(region) /\ HoleFree(region)
           /\ \A c \in cells : in_grid(c[1], c[2])) =>
          /\ ToSet(found) = cells
          /\ Len(found) = Cardinality(cells)

\* the lines of a region of 13 cells that touches the right edge of the
\* grid were converted back
C38_Witness ==
  /\ Converted
  /\ ConvertedIsland.enclosed_positions = ToSet(LongL)
  /\ FourConnected(LongL)
  /\ HoleFree(LongL)
  /\ ToSet(outcome.border_tiles.list) = ToSet(LongL)

\* ---- C39
\* the state with the lake flags of its islands set to `flags`
WithLakeFlags(s, flags) ==
  [s EXCEPT !.islands = [i \in DOMAIN s.islands |->
                           [s.islands[i] EXCEPT !.is_lake = flags[i]]]]

\* C39: the score of an ended state does not depend on the lake flags of
\* its islands: every state that differs from it in those flags only gets
\* the same calculate_points result.
C39_LakeFlagNoEffect ==
  Scored =>
     \A flags \in [DOMAIN InputState.islands -> BOOLEAN] :
        calculate_points(WithLakeFlags(InputState, flags)) = outcome.ret

\* an ended state with two islands flagged lakes, a tile on one of them and
\* a score other than 0 has been scored
C39_Witness ==
  /\ Scored
  /\ Len(InputState.islands) = 2
  /\ \A i \in DOMAIN InputState.islands : InputState.islands[i].is_lake
  /\ \E k \in DOMAIN InputState.placed_tiles :
        _is_on_island(InputState.placed_tiles[k].tile_position, InputState)
  /\ outcome.ret # 0

====
